---- MODULE Spec2Model ----
(***************************************************************************)
(* A model of the country-comparison application (src/src/App.jsx):        *)
(*   - the two-slot selection state machine (setSelection / swap / clear), *)
(*   - the once-per-day refresh policy and the fetchLive pipeline,         *)
(*   - the merge of the metadata source, the boundary file and the         *)
(*     indicator bundles into the master row list.                         *)
(* JavaScript strings are sequences of one-character strings; null is the  *)
(* value NULL, the empty string is << >>.                                  *)
(***************************************************************************)
EXTENDS Integers, Sequences, FiniteSets, TLC

VARIABLES
    \* --- selection state (App.jsx 956-957, 1413-1414) ---
    codeA, codeB, lastA, lastB,
    \* --- wall clock read by Date.now() ---
    clock,
    \* --- history of the selection: last handler run, assignment order of
    \*     the occupants, and the same handlers replayed on a state that
    \*     is created anew at every clear ---
    selEv, order, fresh,
    \* --- data state of the page (App.jsx 952-954, 963) ---
    mounted, liveRows, error, lastRefreshed, worldFC,
    \* --- localStorage["wb:lastRefreshed"] ---
    storage,
    \* --- fetchLive calls in flight, the number started, the interval timer ---
    inflight, started, timerDue,
    \* --- history of the refreshes: last step, a failure since page load ---
    refEv, failed,
    \* --- inputs and result of a merge run on its own ---
    mIn, mOut,
    \* --- a GeoJSON properties object and what is extracted from it ---
    gProps, gOut,
    \* --- row[colorMetric] of the active rows, the scale mode (App.jsx 962)
    \*     and what a render paints ---
    activeValues, colorScaleMode, cOut,
    \* --- the map view (App.jsx 1472-1473) and the pan/zoom hook: its
    \*     position state and its refs (App.jsx 176-193) ---
    zoom, center, position, isPointerDown, pointerOrigin, wheelTimer,
    \* --- history of the map gestures: last event, events so far ---
    zEv, zSteps,
    \* --- the click guard of the map (App.jsx 959, 1717), the callbacks
    \*     waiting for the next animation frame (App.jsx 1738-1745) ---
    draggingRef, skipClickRef, isDraggingMap, framePending,
    \* --- history of the pointer: how far the last press has got, and the
    \*     last click on a shape ---
    gesture, clickEv

selVars == <<codeA, codeB, lastA, lastB, selEv, order, fresh>>
refVars == <<mounted, liveRows, error, lastRefreshed, worldFC, storage,
             inflight, started, timerDue, refEv, failed>>
mrgVars == <<mIn, mOut>>
geoVars == <<gProps, gOut>>
colVars == <<activeValues, colorScaleMode, cOut>>
clickVars == <<draggingRef, skipClickRef, isDraggingMap, framePending,
               gesture, clickEv>>
zoomVars == <<zoom, center, position, isPointerDown, pointerOrigin, wheelTimer,
              zEv, zSteps, clickVars>>
unitVars == <<geoVars, colVars, zoomVars>>
vars == <<selVars, clock, refVars, mrgVars, unitVars>>

----------------------------------------------------------------------------
(* Bounds *)

\* the clock starts at StartClock and is followed up to MaxClock
MaxClock == 5
\* fetchLive calls followed in one behaviour
MaxRefresh == 2
\* metrics of the catalogue that are followed
NumMetrics == 2
\* entries of the metadata list, of the boundary file and of one indicator
\* response in a merge run on its own
MaxCountries == 2
MaxFeatures == 1
\* features of a boundary file when the names of the rows are examined
MaxShapes == 2
MaxRecords == 3
\* properties that a GeoJSON properties object carries
MaxProps == 2
\* active rows that are painted
MaxRows == 6
\* pointer, wheel and button events on the map in one behaviour
MaxGestures == 4

----------------------------------------------------------------------------
(* Program constants *)

\* DAY_MS, with half a day as the unit of time
DAY_MS == 2
StartClock == 3

----------------------------------------------------------------------------
(* JavaScript values *)

NULL == <<"null">>

Truthy(v) == v # NULL /\ v # << >>

LowerAlphabet ==
    <<"a","b","c","d","e","f","g","h","i","j","k","l","m",
      "n","o","p","q","r","s","t","u","v","w","x","y","z">>
UpperAlphabet ==
    <<"A","B","C","D","E","F","G","H","I","J","K","L","M",
      "N","O","P","Q","R","S","T","U","V","W","X","Y","Z">>

ToUpperChar(c) ==
    IF \E i \in 1..26 : LowerAlphabet[i] = c
    THEN UpperAlphabet[CHOOSE i \in 1..26 : LowerAlphabet[i] = c]
    ELSE c

ToUpperCase(s) == [i \in 1..Len(s) |-> ToUpperChar(s[i])]

----------------------------------------------------------------------------
(* Numbers and their decimal text *)

\* the value NaN; every number of the model is an integer above it
NaN == -1000000

Digits == <<"0","1","2","3","4","5","6","7","8","9">>

IsDigit(c) == \E i \in 1..10 : Digits[i] = c
DigitVal(c) == (CHOOSE i \in 1..10 : Digits[i] = c) - 1

RECURSIVE DigitsValue(_)
DigitsValue(s) ==
    IF s = << >> THEN 0
    ELSE 10 * DigitsValue(SubSeq(s, 1, Len(s) - 1)) + DigitVal(s[Len(s)])

AllDigits(s) == \A i \in 1..Len(s) : IsDigit(s[i])

\* Number(text) for the texts of the model: "" is 0, an optionally signed
\* run of digits is its value, anything else is NaN
StringToNumber(s) ==
    IF s = << >> THEN 0
    ELSE IF AllDigits(s) THEN DigitsValue(s)
    ELSE IF Len(s) > 1 /\ s[1] = "-" /\ AllDigits(Tail(s)) THEN 0 - DigitsValue(Tail(s))
    ELSE NaN

RECURSIVE LeadingDigits(_)
LeadingDigits(s) ==
    IF s = << >> \/ ~IsDigit(Head(s)) THEN << >>
    ELSE <<Head(s)>> \o LeadingDigits(Tail(s))

\* parseInt(text, 10)
ParseInt(s) ==
    LET neg  == s # << >> /\ Head(s) = "-"
        body == IF neg THEN Tail(s) ELSE s
        ds   == LeadingDigits(body)
    IN  IF ds = << >> THEN NaN
        ELSE IF neg THEN 0 - DigitsValue(ds) ELSE DigitsValue(ds)

RECURSIVE NatToString(_)
NatToString(n) ==
    IF n < 10 THEN <<Digits[n + 1]>>
    ELSE Append(NatToString(n \div 10), Digits[(n % 10) + 1])

\* String(n) for an integer n
NumberToString(n) == IF n < 0 THEN <<"-">> \o NatToString(0 - n) ELSE NatToString(n)

IsFinite(n) == n # NaN

\* a > b on numbers: false when either side is NaN
Gt(a, b) == a # NaN /\ b # NaN /\ a > b

----------------------------------------------------------------------------
(* JavaScript Map and Set: entries in insertion order *)

MapHas(m, k) == \E i \in 1..Len(m) : m[i][1] = k
MapGet(m, k) == m[CHOOSE i \in 1..Len(m) : m[i][1] = k][2]
MapSet(m, k, v) ==
    IF MapHas(m, k)
    THEN [i \in 1..Len(m) |-> IF m[i][1] = k THEN <<k, v>> ELSE m[i]]
    ELSE Append(m, <<k, v>>)
MapKeys(m) == [i \in 1..Len(m) |-> m[i][1]]

RECURSIVE NewMap(_)
NewMap(pairs) ==
    IF pairs = << >> THEN << >>
    ELSE LET last == pairs[Len(pairs)]
         IN  MapSet(NewMap(SubSeq(pairs, 1, Len(pairs) - 1)), last[1], last[2])

SeqHas(q, x) == \E i \in 1..Len(q) : q[i] = x
SetAdd(q, x) == IF SeqHas(q, x) THEN q ELSE Append(q, x)

RECURSIVE SetAddAll(_, _)
SetAddAll(q, xs) ==
    IF xs = << >> THEN q ELSE SetAddAll(SetAdd(q, Head(xs)), Tail(xs))

----------------------------------------------------------------------------
(* Geo-property extraction (App.jsx 475-507) *)

\* props?.key: a property bag is a function from the keys it has to their
\* values; a missing key and a null value are both NULL
Prop(props, k) == IF k \in DOMAIN props THEN props[k] ELSE NULL

\* a ?? b ?? ... over the keys in order
RECURSIVE FirstNonNullish(_, _)
FirstNonNullish(props, keys) ==
    IF keys = << >> THEN NULL
    ELSE IF Prop(props, Head(keys)) # NULL THEN Prop(props, Head(keys))
    ELSE FirstNonNullish(props, Tail(keys))

Iso3Keys ==
    <<"ISO_A3", "iso_a3", "ISO_A3_EH", "iso_a3_eh", "ADM0_A3", "adm0_a3", "ISO3", "iso3">>
NameKeys == <<"NAME", "name", "NAME_LONG", "name_long", "ADMIN">>
Iso2Keys == <<"ISO_A2", "iso_a2", "ISO_A2_EH", "iso_a2_eh", "WB_A2", "wb_a2">>

Sentinel == <<"-", "9", "9">>

getIso3(props) ==
    LET iso == FirstNonNullish(props, Iso3Keys)
    IN  IF ~Truthy(iso) \/ iso = Sentinel THEN NULL ELSE ToUpperCase(iso)

getNameProp(props) ==
    LET name == FirstNonNullish(props, NameKeys)
    IN  IF name = NULL THEN << >> ELSE name

getIso2(props) ==
    LET iso2 == FirstNonNullish(props, Iso2Keys)
    IN  IF ~Truthy(iso2) \/ iso2 = Sentinel THEN NULL
        ELSE IF Len(ToUpperCase(iso2)) = 2 THEN ToUpperCase(iso2) ELSE NULL

----------------------------------------------------------------------------
(* fetchLive: normalisation of the three sources (App.jsx 977-1056) *)

Country(iso3, iso2, name) == [iso3 |-> iso3, iso2 |-> iso2, country |-> name]

\* countries.filter(region?.id !== "NA" && iso3Code).map(...)
RECURSIVE wbCountries(_)
wbCountries(countries) ==
    IF countries = << >> THEN << >>
    ELSE LET c == Head(countries)
             rest == wbCountries(Tail(countries))
         IN  IF c.regionId # "NA" /\ Truthy(c.iso3Code)
             THEN <<Country(ToUpperCase(c.iso3Code),
                            IF Truthy(c.iso2Code) THEN ToUpperCase(c.iso2Code) ELSE NULL,
                            c.name)>> \o rest
             ELSE rest

\* features.map(...).filter(Boolean)
RECURSIVE geoCountries(_)
geoCountries(features) ==
    IF features = << >> THEN << >>
    ELSE LET props == Head(features).properties
             iso == getIso3(props)
             name == getNameProp(props)
             iso2 == getIso2(props)
             rest == geoCountries(Tail(features))
         IN  IF Truthy(iso)
             THEN <<Country(iso, IF Truthy(iso2) THEN iso2 ELSE NULL, name)>> \o rest
             ELSE rest

NameMapOf(cs) == NewMap([i \in 1..Len(cs) |-> <<cs[i].iso3, cs[i].country>>])
Iso2MapOf(cs) == NewMap([i \in 1..Len(cs) |-> <<cs[i].iso3, cs[i].iso2>>])
\* geoCountries.filter(country => country.iso2) before the Map is built
GeoIso2MapOf(cs) == Iso2MapOf(SelectSeq(cs, LAMBDA c : Truthy(c.iso2)))

\* values of an indicator row: null, a number, or a text
JNull == [t |-> "null", n |-> 0, s |-> << >>]
JNum(n) == [t |-> "num", n |-> n, s |-> << >>]
JStr(s) == [t |-> "str", n |-> 0, s |-> s]

\* Number(valueRaw)
ToNumber(v) ==
    IF v.t = "num" THEN v.n
    ELSE IF v.t = "str" THEN StringToNumber(v.s)
    ELSE 0

EmptyBundle == [latest |-> << >>, series |-> << >>]

\* if (seriesForCountry[year] == null) seriesForCountry[year] = value
SeriesPut_Overwrite(old, year, value) ==
    [y \in DOMAIN old \cup {year} |-> IF y = year THEN value ELSE old[y]]
SeriesPut(old, year, value) ==
    IF year \in DOMAIN old THEN old
    ELSE [y \in DOMAIN old \cup {year} |-> IF y = year THEN value ELSE old[y]]

\* !previous || year > previous.year
Replaces_OnTie(latest, iso, year) ==
    \/ ~MapHas(latest, iso)
    \/ Gt(year, MapGet(latest, iso).year)
    \/ year = MapGet(latest, iso).year
Replaces(latest, iso, year) ==
    \/ ~MapHas(latest, iso)
    \/ Gt(year, MapGet(latest, iso).year)

\* one turn of the loop over the rows of an indicator response
IndicatorStep(b, row) ==
    LET iso == ToUpperCase(row.countryiso3code)
        valueRaw == row.value
        year == ParseInt(row.date)
    IN  IF valueRaw.t = "null" \/ ToNumber(valueRaw) = NaN THEN b
        ELSE LET value == ToNumber(valueRaw)
                 old == IF MapHas(b.series, iso) THEN MapGet(b.series, iso) ELSE << >>
             IN  [latest |-> IF Replaces(b.latest, iso, year)
                             THEN MapSet(b.latest, iso, [value |-> value, year |-> year])
                             ELSE b.latest,
                  series |-> MapSet(b.series, iso, SeriesPut(old, year, value))]

RECURSIVE IndicatorLoop(_, _)
IndicatorLoop(b, rows) ==
    IF rows = << >> THEN b
    ELSE IndicatorLoop(IndicatorStep(b, Head(rows)), Tail(rows))

\* fetchIndicator on the record list of a response
fetchIndicator(recordList) ==
    IndicatorLoop(EmptyBundle,
                  SelectSeq(recordList, LAMBDA row : Truthy(row.countryiso3code)))

----------------------------------------------------------------------------
(* fetchLive: the merge into the master row list (App.jsx 1061-1092) *)

RECURSIVE AddLatestKeys(_, _)
AddLatestKeys(allIso, bundles) ==
    IF bundles = << >> THEN allIso
    ELSE AddLatestKeys(SetAddAll(allIso, MapKeys(Head(bundles).latest)), Tail(bundles))

\* const allIso = new Set([...wbNameMap.keys(), ...geoNameMap.keys()]);
\* bundles.forEach(bundle => bundle.latest.forEach((_, iso) => allIso.add(iso)))
AllIso(wbNameMap, geoNameMap, bundles) ==
    AddLatestKeys(SetAddAll(SetAddAll(<< >>, MapKeys(wbNameMap)), MapKeys(geoNameMap)),
                  bundles)

\* .filter(iso => wbNameMap.has(iso) || geoNameMap.has(iso))
KeepIso_Everything(wbNameMap, geoNameMap, iso) == TRUE
KeepIso(wbNameMap, geoNameMap, iso) == MapHas(wbNameMap, iso) \/ MapHas(geoNameMap, iso)

\* const nameMap = new Map(geoNameMap); wbNameMap.forEach(... nameMap.set(iso, name))
RECURSIVE SetAll(_, _)
SetAll(m, entries) ==
    IF entries = << >> THEN m
    ELSE SetAll(MapSet(m, Head(entries)[1], Head(entries)[2]), Tail(entries))

NameMap_BoundaryFirst(wbNameMap, geoNameMap) == SetAll(wbNameMap, geoNameMap)
NameMap(wbNameMap, geoNameMap) == SetAll(geoNameMap, wbNameMap)

\* a || b on texts
OrElse(a, b) == IF Truthy(a) THEN a ELSE b

GetOrNull(m, k) == IF MapHas(m, k) THEN MapGet(m, k) ELSE NULL

\* the catalogue of metrics: the field keys in the order of METRICS
METRICS == [i \in 1..NumMetrics |-> i]

\* row[metric.field] for the metric at position i of the catalogue
FieldOf_Position(metrics, i) == i
FieldOf(metrics, i) == metrics[i]

\* the row built for one ISO-3 key; the bundle at position i belongs to
\* the metric at position i
RowFor(iso, wbNameMap, wbIso2Map, geoNameMap, geoIso2Map, metrics, bundles) ==
    LET withLatest == {i \in 1..Len(metrics) : MapHas(bundles[i].latest, iso)}
        withSeries == {i \in 1..Len(metrics) : MapHas(bundles[i].series, iso)}
        at(f, S) == CHOOSE i \in S : FieldOf(metrics, i) = f
    IN  [iso3 |-> iso,
         iso2 |-> OrElse(GetOrNull(wbIso2Map, iso), OrElse(GetOrNull(geoIso2Map, iso), NULL)),
         country |-> OrElse(GetOrNull(NameMap(wbNameMap, geoNameMap), iso), iso),
         value |-> [f \in {FieldOf(metrics, i) : i \in withLatest} |->
                       MapGet(bundles[at(f, withLatest)].latest, iso).value],
         years |-> [f \in {FieldOf(metrics, i) : i \in withLatest} |->
                       MapGet(bundles[at(f, withLatest)].latest, iso).year],
         series |-> [f \in {FieldOf(metrics, i) : i \in withSeries} |->
                       MapGet(bundles[at(f, withSeries)].series, iso)]]

\* rows = Array.from(allIso).filter(...).map(...)
MergeRows(wbNameMap, wbIso2Map, geoNameMap, geoIso2Map, metrics, bundles) ==
    LET kept == SelectSeq(AllIso(wbNameMap, geoNameMap, bundles),
                          LAMBDA iso : KeepIso(wbNameMap, geoNameMap, iso))
    IN  [i \in 1..Len(kept) |->
            RowFor(kept[i], wbNameMap, wbIso2Map, geoNameMap, geoIso2Map,
                   metrics, bundles)]

\* the rows built when the catalogue, and with it the requests and their
\* bundles, is in the order perm
RowsOfPermuted(countries, features, recordLists, perm) ==
    LET wb == wbCountries(countries)
        geo == geoCountries(features)
    IN  MergeRows(NameMapOf(wb), Iso2MapOf(wb), NameMapOf(geo), GeoIso2MapOf(geo),
                  [i \in 1..Len(perm) |-> METRICS[perm[i]]],
                  [i \in 1..Len(perm) |-> fetchIndicator(recordLists[perm[i]])])

\* the rows that a refresh commits from the three decoded responses
RowsOf(countries, features, recordLists) ==
    RowsOfPermuted(countries, features, recordLists, [i \in 1..NumMetrics |-> i])

----------------------------------------------------------------------------
(* Selection state machine *)

USA == <<"U","S","A">>
FRA == <<"F","R","A">>
DEU == <<"D","E","U">>

\* what a click, a key press or a search-list entry can hand to setSelection
SelInputs ==
    { NULL, << >>,
      USA, <<"u","s","a">>, <<"U","s","a">>,
      FRA, <<"f","r","a">>,
      DEU, <<"d","e","u">> }

Sel(a, b, la, lb) == [codeA |-> a, codeB |-> b, lastA |-> la, lastB |-> lb]

CurSel == Sel(codeA, codeB, lastA, lastB)

InitSel == Sel(NULL, NULL, 0, 0)

\* const iso = iso3.toUpperCase()
IsoOf_AsGiven(iso3) == iso3
IsoOf(iso3) == ToUpperCase(iso3)

\* the slot that setSelection writes for a code that is in neither slot
SlotFor_EmptyToB(s) ==
    IF ~Truthy(s.codeA) /\ ~Truthy(s.codeB) THEN "B"
    ELSE IF ~Truthy(s.codeA) THEN "A"
    ELSE IF ~Truthy(s.codeB) THEN "B"
    ELSE IF s.lastA <= s.lastB THEN "A" ELSE "B"
SlotFor(s) ==
    IF ~Truthy(s.codeA) /\ ~Truthy(s.codeB) THEN "A"
    ELSE IF ~Truthy(s.codeA) THEN "A"
    ELSE IF ~Truthy(s.codeB) THEN "B"
    ELSE IF s.lastA <= s.lastB THEN "A" ELSE "B"

\* setSelection(iso3) run at time now on the state s
SetSelection_Unguarded(s, iso3, now) ==
    IF ~Truthy(iso3) THEN s
    ELSE IF SlotFor(s) = "A"
         THEN [s EXCEPT !.codeA = IsoOf(iso3), !.lastA = now]
         ELSE [s EXCEPT !.codeB = IsoOf(iso3), !.lastB = now]
SetSelection(s, iso3, now) ==
    IF ~Truthy(iso3) THEN s
    ELSE LET iso == IsoOf(iso3) IN
         IF iso = s.codeA \/ iso = s.codeB THEN s
         ELSE IF SlotFor(s) = "A"
              THEN [s EXCEPT !.codeA = iso, !.lastA = now]
              ELSE [s EXCEPT !.codeB = iso, !.lastB = now]

swap_WithStamps(s) ==
    [s EXCEPT !.codeA = s.codeB, !.codeB = s.codeA,
              !.lastA = s.lastB, !.lastB = s.lastA]
swap(s) == [s EXCEPT !.codeA = s.codeB, !.codeB = s.codeA]

clear(s) == [s EXCEPT !.codeA = NULL, !.codeB = NULL]

\* Date.now() is the clock: it never runs backwards, and two handlers may
\* read the same millisecond
Tick ==
    /\ clock < MaxClock
    /\ clock' = clock + 1

Occupants(s) == {c \in {s.codeA, s.codeB} : Truthy(c)}

\* the occupants in the order in which they were assigned
NextOrder(q, s, t) ==
    LET kept == SelectSeq(q, LAMBDA c : c \in Occupants(t))
        new  == Occupants(t) \ Occupants(s)
    IN  IF new = {} THEN kept ELSE Append(kept, CHOOSE c \in new : TRUE)

Apply(op, iso3, t) ==
    /\ codeA' = t.codeA
    /\ codeB' = t.codeB
    /\ lastA' = t.lastA
    /\ lastB' = t.lastB
    /\ order' = NextOrder(order, CurSel, t)
    /\ selEv' = [op |-> op, iso |-> iso3, pre |-> CurSel, preOrder |-> order,
                 now |-> clock]
    /\ UNCHANGED <<clock, refVars, mrgVars, unitVars>>

Select(iso3) ==
    /\ Apply("select", iso3, SetSelection(CurSel, iso3, clock))
    /\ fresh' = SetSelection(fresh, iso3, clock)

Swap ==
    /\ Apply("swap", NULL, swap(CurSel))
    /\ fresh' = swap(fresh)

Clear ==
    /\ Apply("clear", NULL, clear(CurSel))
    /\ fresh' = InitSel

SelTick == Tick /\ UNCHANGED <<selVars, refVars, mrgVars, unitVars>>

SelInit ==
    /\ codeA = NULL
    /\ codeB = NULL
    /\ lastA = 0
    /\ lastB = 0
    /\ selEv = [op |-> "init", iso |-> NULL, pre |-> InitSel, preOrder |-> << >>,
                now |-> 0]
    /\ order = << >>
    /\ fresh = InitSel

SelNext ==
    \/ \E iso3 \in SelInputs : Select(iso3)
    \/ Swap
    \/ Clear
    \/ SelTick

----------------------------------------------------------------------------
(* Responses of the three sources *)

WbCountry(region, iso3, iso2, name) ==
    [regionId |-> region, iso3Code |-> iso3, iso2Code |-> iso2, name |-> name]

wbUSA == WbCountry("NAC", USA, <<"U","S">>, <<"United States">>)
wbFra == WbCountry("ECS", <<"f","r","a">>, NULL, <<"France">>)
wbWLD == WbCountry("NA", <<"W","L","D">>, <<"1","W">>, <<"World">>)
wbNoCode == WbCountry("ECS", << >>, NULL, <<"Nowhere">>)

Feature(props) == [properties |-> props]

fUSA == Feature([ISO_A3 |-> USA, NAME |-> <<"United States of America">>,
                 ISO_A2 |-> <<"U","S">>])
fFRA == Feature([iso_a3 |-> <<"f","r","a">>, name |-> <<"France">>])
fDEU == Feature([ISO_A3 |-> NULL, ADM0_A3 |-> DEU, ADMIN |-> <<"Germany">>])
fNoIso == Feature([ISO_A3 |-> Sentinel, NAME |-> <<"N. Cyprus">>])
fBare == Feature(<< >>)

Record(iso, value, date) == [countryiso3code |-> iso, value |-> value, date |-> date]

Y2019 == <<"2","0","1","9">>
Y2020 == <<"2","0","2","0">>

rFRA == Record(FRA, JNum(5), Y2020)
rUSA == Record(<<"u","s","a">>, JStr(<<"2","1">>), Y2019)
rXKX == Record(<<"X","K","X">>, JNum(1), Y2020)
rDEUnull == Record(DEU, JNull, Y2020)

\* countryJson[1] || [] of the responses that a refresh may receive
MetaResponses == { << >>, <<wbUSA, wbFra, wbWLD>> }
\* geoJson.features of the boundary files that a refresh may receive
GeoResponses == { << >>, <<fUSA, fDEU, fBare>> }
\* indicatorJson[1] of every metric
IndicatorResponses ==
    { [i \in 1..NumMetrics |-> << >>],
      [i \in 1..NumMetrics |-> IF i = 1 THEN <<rFRA, rXKX, rDEUnull>> ELSE <<rUSA>>] }

\* the merged rows of every combination of responses, worked out once
RowsTable ==
    [c \in MetaResponses, f \in GeoResponses, l \in IndicatorResponses |->
        RowsOf(c, f, l)]

----------------------------------------------------------------------------
(* Refresh: fetchLive and the once-per-day policy (App.jsx 968-1127) *)

\* no number: the null of last and of lastRefreshed
NoTime == NaN + 1

NoFC == [loaded |-> FALSE, features |-> << >>]
FC(features) == [loaded |-> TRUE, features |-> features]

\* what the page shows of the data, and what is persisted
Displayed ==
    [rows |-> liveRows, fc |-> worldFC, lr |-> lastRefreshed, st |-> storage]

\* localStorage.getItem(LAST_KEY) inside try/catch, then Number(raw)
ReadLast(readOK, sto) ==
    IF readOK /\ Truthy(sto) THEN StringToNumber(sto) ELSE NoTime

\* !last || !Number.isFinite(last) || now - last > DAY_MS || !liveRows.length
ShouldFetch(last, now, nRows) ==
    \/ last = NoTime \/ last = 0 \/ last = NaN
    \/ ~IsFinite(last)
    \/ now - last > DAY_MS
    \/ nRows = 0

\* a call of fetchLive up to its first await; snap and clean are history:
\* the data state at the call, and that no other step has changed it since
Call(id, snap) ==
    [id |-> id, pc |-> "meta", countries |-> << >>, features |-> << >>,
     snap |-> snap, clean |-> TRUE]

\* the calls in flight after the catch block of the call r has run
AfterCatch_Retry(running, r, id, snap) == (running \ {r}) \cup {Call(id, snap)}
AfterCatch(running, r, id, snap) == running \ {r}

\* localStorage.setItem(LAST_KEY, String(now)) inside try/catch
WriteLast(writeOK, sto, now) == IF writeOK THEN NumberToString(now) ELSE sto

Ids(running) == {r.id : r \in running}

Touch(running, changed) ==
    IF changed THEN {[r EXCEPT !.clean = FALSE] : r \in running} ELSE running

Ev(kind, r, readOK, writeOK, rows) ==
    [kind |-> kind, id |-> r.id, snap |-> r.snap, clean |-> r.clean,
     readOK |-> readOK, writeOK |-> writeOK,
     preError |-> error, afterFailure |-> failed,
     starts |-> Ids(inflight') \ Ids(inflight) # {},
     rows |-> rows, now |-> clock,
     over |-> IF kind = "load" THEN 0 ELSE refEv.shown,
     shown |-> IF kind = "commit" THEN r.id
               ELSE IF kind = "load" THEN 0 ELSE refEv.shown]

NoCall == Call(0, Displayed)

\* the body of the refresh-policy effect, run with nRows rows on the page
\* and sto in the store; it gives the calls in flight, error, lastRefreshed
Effect(readOK, sto, nRows, running, err, lr, snap) ==
    LET last == ReadLast(readOK, sto)
    IN  IF ShouldFetch(last, clock, nRows)
        THEN [inflight |-> running \cup {Call(started + 1, snap)},
              error |-> "", lastRefreshed |-> lr]
        ELSE [inflight |-> running, error |-> err, lastRefreshed |-> last]

\* the page is loaded or reloaded: state is created anew, the effect runs
PageLoad ==
    \E readOK \in BOOLEAN :
        LET snap == [rows |-> << >>, fc |-> NoFC, lr |-> NoTime, st |-> storage]
            e == Effect(readOK, storage, 0, {}, "", NoTime, snap)
        IN  /\ started < MaxRefresh
            /\ mounted' = TRUE
            /\ liveRows' = << >>
            /\ worldFC' = NoFC
            /\ inflight' = e.inflight
            /\ error' = e.error
            /\ lastRefreshed' = e.lastRefreshed
            /\ started' = started + Cardinality(Ids(inflight') \ Ids(inflight))
            /\ timerDue' = clock + DAY_MS
            /\ failed' = FALSE
            /\ UNCHANGED <<storage, clock, selVars, mrgVars, unitVars>>
            /\ refEv' = Ev("load", NoCall, readOK, TRUE, << >>)

\* the interval timer calls fetchLive
TimerFire ==
    /\ mounted
    /\ clock >= timerDue
    /\ started < MaxRefresh
    /\ inflight' = inflight \cup {Call(started + 1, Displayed)}
    /\ error' = ""
    /\ started' = started + 1
    /\ timerDue' = timerDue + DAY_MS
    /\ UNCHANGED <<mounted, liveRows, lastRefreshed, worldFC, storage, failed,
                   clock, selVars, mrgVars, unitVars>>
    /\ refEv' = Ev("timer", NoCall, TRUE, TRUE, << >>)

\* the country metadata arrives
MetaOK(r, countries) ==
    /\ r.pc = "meta"
    /\ inflight' = (inflight \ {r}) \cup {[r EXCEPT !.pc = "geo", !.countries = countries]}
    /\ UNCHANGED <<mounted, liveRows, error, lastRefreshed, worldFC, storage,
                   started, timerDue, failed, clock, selVars, mrgVars, unitVars>>
    /\ refEv' = Ev("meta", r, TRUE, TRUE, << >>)

\* the boundary file arrives with a features array
GeoOK(r, features) ==
    LET fc == IF Len(features) > 0 THEN FC(features) ELSE worldFC
        r2 == [r EXCEPT !.pc = "ind", !.features = features]
    IN  /\ r.pc = "geo"
        /\ worldFC' = fc
        /\ inflight' = Touch(inflight \ {r}, fc # worldFC) \cup {r2}
        /\ UNCHANGED <<mounted, liveRows, error, lastRefreshed, storage,
                       started, timerDue, failed, clock, selVars, mrgVars, unitVars>>
        /\ refEv' = Ev("geo", r, TRUE, TRUE, << >>)

\* a fetch of the call r is rejected, or its response cannot be used: the
\* catch block sets the banner
Fail(r) ==
    /\ error' = "Failed to fetch live data"
    /\ inflight' = AfterCatch(inflight, r, started + 1, Displayed)
    /\ started' = started + Cardinality(Ids(inflight') \ Ids(inflight))
    /\ started' <= MaxRefresh
    /\ failed' = TRUE
    /\ UNCHANGED <<mounted, liveRows, lastRefreshed, worldFC, storage,
                   timerDue, clock, selVars, mrgVars, unitVars>>
    /\ refEv' = Ev("fail", r, TRUE, TRUE, << >>)

\* every indicator arrives: the rows are merged and committed, the
\* timestamp is stored, and the effect runs again when the number of rows
\* has changed
Commit(r, recordLists) ==
    \E writeOK \in BOOLEAN, readOK \in BOOLEAN :
        LET rows == RowsTable[r.countries, r.features, recordLists]
            sto == WriteLast(writeOK, storage, clock)
            others == Touch(inflight \ {r}, TRUE)
            rerun == Len(rows) # Len(liveRows)
            snap == [rows |-> rows, fc |-> worldFC, lr |-> clock, st |-> sto]
            e == IF rerun
                 THEN Effect(readOK, sto, Len(rows), others, error, clock, snap)
                 ELSE [inflight |-> others, error |-> error, lastRefreshed |-> clock]
        IN  /\ r.pc = "ind"
            /\ rerun \/ readOK
            /\ liveRows' = rows
            /\ storage' = sto
            /\ inflight' = e.inflight
            /\ error' = e.error
            /\ lastRefreshed' = e.lastRefreshed
            /\ started' = started + Cardinality(Ids(inflight') \ Ids(inflight))
            /\ started' <= MaxRefresh
            /\ timerDue' = IF rerun THEN clock + DAY_MS ELSE timerDue
            /\ UNCHANGED <<mounted, worldFC, failed, clock, selVars, mrgVars, unitVars>>
            /\ refEv' = Ev("commit", r, readOK, writeOK, rows)

RefTick == Tick /\ UNCHANGED <<selVars, refVars, mrgVars, unitVars>>

\* the timestamps that an earlier visit may have left in the store
StoredBefore ==
    {NULL, <<"x">>} \cup {NumberToString(t) : t \in 0..StartClock}

RefIdle ==
    /\ mounted = FALSE
    /\ liveRows = << >>
    /\ error = ""
    /\ lastRefreshed = NoTime
    /\ worldFC = NoFC
    /\ inflight = {}
    /\ started = 0
    /\ timerDue = 0
    /\ failed = FALSE
    /\ refEv = [kind |-> "init", id |-> 0,
                snap |-> [rows |-> << >>, fc |-> NoFC, lr |-> NoTime, st |-> storage],
                clean |-> TRUE, readOK |-> TRUE, writeOK |-> TRUE,
                preError |-> "", afterFailure |-> FALSE, starts |-> FALSE,
                rows |-> << >>, now |-> 0, over |-> 0, shown |-> 0]

RefInit ==
    /\ storage \in StoredBefore
    /\ RefIdle

RefNext ==
    \/ PageLoad
    \/ TimerFire
    \/ \E r \in inflight : \E countries \in MetaResponses : MetaOK(r, countries)
    \/ \E r \in inflight : \E features \in GeoResponses : GeoOK(r, features)
    \/ \E r \in inflight : \E recordLists \in IndicatorResponses : Commit(r, recordLists)
    \/ \E r \in inflight : Fail(r)
    \/ RefTick

----------------------------------------------------------------------------
(* The merge run on its own, over every small input *)

RECURSIVE SeqsUpTo(_, _)
SeqsUpTo(S, n) ==
    IF n = 0 THEN { << >> }
    ELSE LET shorter == SeqsUpTo(S, n - 1)
         IN  shorter \cup {Append(q, x) : q \in {p \in shorter : Len(p) = n - 1}, x \in S}

WBPool == {wbUSA, wbFra, wbWLD, wbNoCode}
FeaturePool == {fUSA, fFRA, fNoIso}
\* indicatorJson[1] of one metric
RecordLists == { << >>, <<rXKX, rUSA>>, <<rUSA, rDEUnull, rFRA>> }

\* the orders that the catalogue of metrics can be written in
MetricOrders ==
    {p \in [1..NumMetrics -> 1..NumMetrics] :
        \A i, j \in 1..NumMetrics : p[i] = p[j] => i = j}

NoMerge == [done |-> FALSE, rows |-> << >>, perm |-> << >>, permRows |-> << >>]

MrgIdle ==
    /\ mIn = [countries |-> << >>, features |-> << >>,
              recordLists |-> [i \in 1..NumMetrics |-> << >>]]
    /\ mOut = NoMerge

MrgInit ==
    /\ mIn \in [countries : SeqsUpTo(WBPool, MaxCountries),
                features : SeqsUpTo(FeaturePool, MaxFeatures),
                recordLists : [1..NumMetrics -> RecordLists]]
    /\ mOut = NoMerge

\* observations of one country: years repeated, out of order and unreadable
NoYear == <<"n","a">>
oUSA19 == Record(USA, JNum(3), Y2019)
oUSA20 == Record(USA, JNum(5), Y2020)
oUSA20b == Record(<<"u","s","a">>, JStr(<<"7">>), Y2020)
oUSAnull == Record(USA, JNull, Y2020)
oUSAbad == Record(USA, JNum(9), NoYear)
ObservationPool == {oUSA19, oUSA20, oUSA20b, oUSAnull, oUSAbad, rFRA}

\* the first metric's response is any sequence of observations
ObsInit ==
    /\ \E obs \in SeqsUpTo(ObservationPool, MaxRecords) :
          mIn = [countries |-> <<wbUSA, wbFra>>, features |-> << >>,
                 recordLists |-> [i \in 1..NumMetrics |->
                                     IF i = 1 THEN obs ELSE << >>]]
    /\ mOut = NoMerge

\* codes that are not three characters long
wbShort == WbCountry("ECS", <<"u","k">>, <<"G","B">>, <<"United Kingdom">>)
fLong == Feature([ISO_A3 |-> <<"F","R","A","N">>, NAME |-> <<"France">>])

\* metadata and boundary files with well-formed and malformed codes
CodesInit ==
    /\ mIn \in [countries : SeqsUpTo({wbUSA, wbFra, wbShort, wbNoCode}, MaxCountries),
                features : SeqsUpTo({fUSA, fFRA, fNoIso, fLong}, MaxFeatures),
                recordLists : {[i \in 1..NumMetrics |-> << >>]}]
    /\ mOut = NoMerge

\* a metadata entry and a boundary feature that carry a code and no name
wbUnnamed == WbCountry("NAC", USA, NULL, << >>)
fUnnamed == Feature([ISO_A3 |-> DEU])

\* metadata and boundary files whose entries may share a code or lack a name
NamesInit ==
    /\ mIn \in [countries : SeqsUpTo({wbUSA, wbFra, wbUnnamed}, MaxCountries),
                features : SeqsUpTo({fUSA, fFRA, fUnnamed}, MaxShapes),
                recordLists : {[i \in 1..NumMetrics |->
                                   IF i = 1 THEN <<rFRA>> ELSE << >>]}]
    /\ mOut = NoMerge

\* the three responses are decoded and merged, once with the catalogue as
\* written and once with the catalogue in the order perm
Merge ==
    /\ ~mOut.done
    /\ \E perm \in MetricOrders :
          mOut' = [done |-> TRUE,
                   rows |-> RowsOf(mIn.countries, mIn.features, mIn.recordLists),
                   perm |-> perm,
                   permRows |-> RowsOfPermuted(mIn.countries, mIn.features,
                                               mIn.recordLists, perm)]
    /\ UNCHANGED <<mIn, clock, selVars, refVars, unitVars>>

MrgNext == Merge

----------------------------------------------------------------------------
(* The property extractors run on their own (App.jsx 475-507) *)

\* the values that a recognised key may carry: null, the placeholder, codes
IsoValues == {NULL, Sentinel, <<"u","s","a">>, DEU}

\* the properties objects with at most MaxProps of the recognised keys
PropsObjects ==
    UNION {[K -> IsoValues] :
              K \in {S \in SUBSET {Iso3Keys[i] : i \in 1..Len(Iso3Keys)} :
                        Cardinality(S) <= MaxProps}}

NoExtract == [done |-> FALSE, iso3 |-> NULL]

GeoIdle ==
    /\ gProps = << >>
    /\ gOut = NoExtract

GeoInit ==
    /\ gProps \in PropsObjects
    /\ gOut = NoExtract

\* getIso3(feature.properties)
Extract ==
    /\ ~gOut.done
    /\ gOut' = [done |-> TRUE, iso3 |-> getIso3(gProps)]
    /\ UNCHANGED <<gProps, clock, selVars, refVars, mrgVars, colVars, zoomVars>>

GeoNext == Extract

----------------------------------------------------------------------------
(* Numbers of the colour scale: IEEE 754 doubles, rounded to the nearest with
   ties to even. A natural number is the sequence of its binary digits, the
   lowest first and the highest a 1; a double that is not negative is
   [m, e] for m * 2^e with m odd and below 2^53, or m empty for 0.
   Infinities, NaN and subnormal numbers are not met by the colour scale of
   the model. *)

RECURSIVE BitsOf(_)
BitsOf(n) == IF n = 0 THEN << >> ELSE <<n % 2>> \o BitsOf(n \div 2)

RECURSIVE NatOf(_)
NatOf(bits) == IF bits = << >> THEN 0 ELSE Head(bits) + 2 * NatOf(Tail(bits))

\* the digits without zeros above the highest 1
RECURSIVE Trimmed(_)
Trimmed(bits) ==
    IF bits = << >> THEN << >>
    ELSE IF bits[Len(bits)] = 1 THEN bits
    ELSE Trimmed(SubSeq(bits, 1, Len(bits) - 1))

RECURSIVE BitsAdd(_, _, _)
BitsAdd(a, b, carry) ==
    IF a = << >> /\ b = << >> THEN (IF carry = 1 THEN <<1>> ELSE << >>)
    ELSE LET x == IF a = << >> THEN 0 ELSE Head(a)
             y == IF b = << >> THEN 0 ELSE Head(b)
             sum == x + y + carry
         IN  <<sum % 2>> \o BitsAdd(IF a = << >> THEN a ELSE Tail(a),
                                    IF b = << >> THEN b ELSE Tail(b),
                                    sum \div 2)

\* a - b for a >= b, digit by digit with a borrow
RECURSIVE BitsSubtract(_, _, _)
BitsSubtract(a, b, borrow) ==
    IF a = << >> THEN << >>
    ELSE LET y == IF b = << >> THEN 0 ELSE Head(b)
             d == Head(a) - y - borrow
         IN  <<d % 2>> \o BitsSubtract(Tail(a),
                                       IF b = << >> THEN b ELSE Tail(b),
                                       IF d < 0 THEN 1 ELSE 0)

BitsShift(a, k) == IF a = << >> THEN a ELSE [i \in 1..k |-> 0] \o a

\* a < b on trimmed digits
RECURSIVE BitsLess(_, _)
BitsLess(a, b) ==
    IF Len(a) # Len(b) THEN Len(a) < Len(b)
    ELSE IF a = << >> THEN FALSE
    ELSE IF a[Len(a)] # b[Len(b)] THEN a[Len(a)] < b[Len(b)]
    ELSE BitsLess(Trimmed(SubSeq(a, 1, Len(a) - 1)), Trimmed(SubSeq(b, 1, Len(b) - 1)))

\* a * b: a shifted and added for every 1 of b
RECURSIVE BitsTimes(_, _)
BitsTimes(a, b) ==
    IF b = << >> \/ a = << >> THEN << >>
    ELSE LET rest == BitsShift(BitsTimes(a, Tail(b)), 1)
         IN  IF Head(b) = 1 THEN BitsAdd(a, rest, 0) ELSE rest

\* m * 2^e with the zeros at the low end of m moved into the exponent
RECURSIVE Canonical(_, _)
Canonical(m, e) ==
    IF m = << >> THEN [m |-> << >>, e |-> 0]
    ELSE IF Head(m) = 1 THEN [m |-> m, e |-> e]
    ELSE Canonical(Tail(m), e + 1)

\* the double nearest to m * 2^e: 53 digits are kept, a remainder above a
\* half rounds up, a remainder of a half rounds to the even neighbour
RoundToDouble(m, e) ==
    IF Len(m) <= 53 THEN Canonical(m, e)
    ELSE LET drop == Len(m) - 53
             kept == SubSeq(m, drop + 1, Len(m))
             up == /\ m[drop] = 1
                   /\ (kept[1] = 1 \/ \E i \in 1..(drop - 1) : m[i] = 1)
         IN  Canonical(IF up THEN BitsAdd(kept, <<1>>, 0) ELSE kept, e + drop)

Double(n) == Canonical(BitsOf(n), 0)

\* the digits of two doubles over their lower exponent
AlignedLeft(x, y) == BitsShift(x.m, IF x.e > y.e /\ y.m # << >> THEN x.e - y.e ELSE 0)
LowerExponent(x, y) ==
    IF x.m = << >> THEN y.e ELSE IF y.m = << >> THEN x.e
    ELSE IF x.e < y.e THEN x.e ELSE y.e

\* x * y, x + y, x - y (for x >= y) and x < y on doubles
DoubleTimes(x, y) ==
    RoundToDouble(IF Len(x.m) < Len(y.m) THEN BitsTimes(y.m, x.m) ELSE BitsTimes(x.m, y.m),
                  x.e + y.e)
DoublePlus(x, y) ==
    RoundToDouble(BitsAdd(AlignedLeft(x, y), AlignedLeft(y, x), 0), LowerExponent(x, y))
DoubleMinus(x, y) ==
    RoundToDouble(Trimmed(BitsSubtract(AlignedLeft(x, y), AlignedLeft(y, x), 0)),
                  LowerExponent(x, y))
DoubleLess(x, y) == BitsLess(AlignedLeft(x, y), AlignedLeft(y, x))

\* Math.floor(x) as a natural number, and whether x is a whole number
Floor(x) == IF x.e >= 0 THEN NatOf(BitsShift(x.m, x.e))
            ELSE NatOf(SubSeq(x.m, 1 - x.e, Len(x.m)))
IsWhole(x) == x.e >= 0

\* a hexadecimal digit as four binary digits, lowest first
HexDigit(c) ==
    LET n == CHOOSE k \in 0..15 :
                 <<"0","1","2","3","4","5","6","7","8","9","a","b","c","d","e","f">>[k + 1] = c
    IN  <<n % 2, (n \div 2) % 2, (n \div 4) % 2, (n \div 8) % 2>>

RECURSIVE HexBits(_)
HexBits(digits) ==
    IF digits = << >> THEN << >>
    ELSE HexBits(Tail(digits)) \o HexDigit(Head(digits))

\* the literals 0.2, 0.4, 0.6 and 0.8 as doubles: 0x1.999999999999ap-3,
\* 0x1.999999999999ap-2, 0x1.3333333333333p-1 and 0x1.999999999999ap-1
Hex19A == HexBits(<<"1","9","9","9","9","9","9","9","9","9","9","9","9","a">>)
Hex133 == HexBits(<<"1","3","3","3","3","3","3","3","3","3","3","3","3","3">>)
QuantileFractions ==
    <<Canonical(Trimmed(Hex19A), -55), Canonical(Trimmed(Hex19A), -54),
      Canonical(Trimmed(Hex133), -53), Canonical(Trimmed(Hex19A), -53)>>

----------------------------------------------------------------------------
(* The choropleth colour scale (App.jsx 529-537, 1348-1406, 1793-1809,
   1895-1898, 2116-2154) *)

\* `hsl(210, 70%, ${lightness}%)`
Hsl(lightness) == <<"hsl", 210, 70, lightness>>

\* a gradient that runs from deep blue to white
whiteBlue_DeepFirst(num, den) ==
    LET clamped == IF num < 0 THEN 0 ELSE IF num > den THEN den ELSE num
    IN  Hsl((2 * (58 * den + 40 * clamped) + den) \div (2 * den))

\* whiteBlue(t) for t = num / den with den > 0: the lightness is
\* Math.round(98 - 40 * clamped), a half rounding up
whiteBlue(num, den) ==
    LET clamped == IF num < 0 THEN 0 ELSE IF num > den THEN den ELSE num
    IN  Hsl((2 * (98 * den - 40 * clamped) + den) \div (2 * den))

\* whiteBluePalette(n)
whiteBluePalette(n) ==
    [i \in 1..n |-> IF n = 1 THEN whiteBlue(1, 1) ELSE whiteBlue(i - 1, n - 1)]

\* typeof value === "number" && !Number.isNaN(value)
IsNumber(v) == v.t = "num" /\ v.n # NaN

\* values.sort((a, b) => a - b)
RECURSIVE InsertAsc(_, _)
InsertAsc(sorted, x) ==
    IF sorted = << >> THEN <<x>>
    ELSE IF x < Head(sorted) THEN <<x>> \o sorted
    ELSE <<Head(sorted)>> \o InsertAsc(Tail(sorted), x)

RECURSIVE SortAsc(_)
SortAsc(q) == IF q = << >> THEN << >> ELSE InsertAsc(SortAsc(Tail(q)), Head(q))

\* the numeric values of the rows, in row order
NumericValues(rowValues) ==
    LET kept == SelectSeq(rowValues, IsNumber)
    IN  [i \in 1..Len(kept) |-> kept[i].n]

\* the values that a row can have under the active metric
MetricValues == {JNull, JNum(1), JNum(3), JNum(5)}

\* quantile(p) over the sorted values
Quantile(values, p) ==
    LET index == DoubleTimes(Double(Len(values) - 1), p)
        lo == Floor(index)
        t == DoubleMinus(index, Double(lo))
    IN  IF IsWhole(index) THEN Double(values[lo + 1])
        ELSE DoublePlus(DoubleTimes(Double(values[lo + 1]), DoubleMinus(Double(1), t)),
                        DoubleTimes(Double(values[lo + 2]), t))

\* the sorted lists of numeric values that the rows of the model can give
SortedValues ==
    {SortAsc(q) : q \in SeqsUpTo({v.n : v \in {w \in MetricValues : IsNumber(w)}},
                                  MaxRows)} \ { << >> }

\* const thresholds = [0.2, 0.4, 0.6, 0.8].map(quantile), for every list
ThresholdsOf ==
    [values \in SortedValues |-> [k \in 1..4 |-> Quantile(values, QuantileFractions[k])]]

valueStats(rowValues) ==
    LET values == SortAsc(NumericValues(rowValues))
    IN  IF values = << >>
        THEN [vals |-> << >>, thresholds |-> << >>, palette |-> << >>]
        ELSE [vals |-> values,
              thresholds |-> ThresholdsOf[values],
              palette |-> whiteBluePalette(5)]

linearStats(rowValues) ==
    LET values == NumericValues(rowValues)
        set == {values[i] : i \in 1..Len(values)}
    IN  IF values = << >>
        THEN [min |-> 0, max |-> 0, hasVals |-> FALSE]
        ELSE [min |-> CHOOSE x \in set : \A y \in set : x <= y,
              max |-> CHOOSE x \in set : \A y \in set : x >= y,
              hasVals |-> TRUE]

\* while (index < thresholds.length && value > thresholds[index]) index += 1
RECURSIVE BucketIndex(_, _, _)
BucketIndex(value, thresholds, index) ==
    IF index < Len(thresholds) /\ DoubleLess(thresholds[index + 1], Double(value))
    THEN BucketIndex(value, thresholds, index + 1)
    ELSE index

colorFor(value, mode, vs, ls) ==
    IF ~IsNumber(value) THEN whiteBlue(0, 1)
    ELSE IF mode = "quantile"
    THEN IF vs.vals = << >> THEN whiteBlue(0, 1)
         ELSE vs.palette[BucketIndex(value.n, vs.thresholds, 0) + 1]
    ELSE IF ~ls.hasVals \/ ls.max = ls.min THEN whiteBlue(0, 1)
         ELSE whiteBlue(value.n - ls.min, ls.max - ls.min)

hasLegendVals(mode, vs, ls) ==
    IF mode = "quantile" THEN Len(vs.vals) >= 2
    ELSE ls.hasVals /\ ls.min # ls.max

\* what is drawn under the map
Legend(mode, vs, ls) ==
    IF mode = "quantile"
    THEN IF hasLegendVals(mode, vs, ls) THEN "five buckets"
         ELSE "Not enough data to compute quantile legend."
    ELSE IF hasLegendVals(mode, vs, ls) THEN "gradient"
         ELSE "Not enough data to compute linear legend."

NoRender ==
    [done |-> FALSE, fill |-> << >>, legend |-> "", cMin |-> Hsl(0), cMax |-> Hsl(0),
     thresholds |-> << >>]

ColorIdle ==
    /\ activeValues = << >>
    /\ colorScaleMode = "quantile"
    /\ cOut = NoRender

ColorInit ==
    /\ activeValues \in SeqsUpTo(MetricValues, MaxRows)
    /\ colorScaleMode = "quantile"
    /\ cOut = NoRender

\* a render: the fill of every row, the legend, and the colours that the
\* self-tests compare
Render ==
    /\ ~cOut.done
    /\ LET vs == valueStats(activeValues)
           ls == linearStats(activeValues)
       IN  cOut' = [done |-> TRUE,
                    fill |-> [i \in 1..Len(activeValues) |->
                                 colorFor(activeValues[i], colorScaleMode, vs, ls)],
                    legend |-> Legend(colorScaleMode, vs, ls),
                    cMin |-> IF ls.hasVals
                             THEN colorFor(JNum(ls.min), colorScaleMode, vs, ls)
                             ELSE Hsl(0),
                    cMax |-> IF ls.hasVals
                             THEN colorFor(JNum(ls.max), colorScaleMode, vs, ls)
                             ELSE Hsl(0),
                    thresholds |-> vs.thresholds]
    /\ UNCHANGED <<activeValues, colorScaleMode, clock, selVars, refVars, mrgVars, geoVars,
                   zoomVars>>

\* <Select value={colorScaleMode} onChange={setColorScaleMode}>
SetColorScaleMode(mode) ==
    /\ colorScaleMode # mode
    /\ colorScaleMode' = mode
    /\ cOut' = NoRender
    /\ UNCHANGED <<activeValues, clock, selVars, refVars, mrgVars, geoVars, zoomVars>>

ColorNext ==
    \/ Render
    \/ \E mode \in {"quantile", "linear"} : SetColorScaleMode(mode)

----------------------------------------------------------------------------
(* Numbers of the map geometry: exact fractions <<numerator, denominator>> *)

Rational == Int \X Int

Abs(n) == IF n < 0 THEN 0 - n ELSE n

GCD[a \in Nat, b \in Nat] == IF b = 0 THEN a ELSE GCD[b, a % b]

\* the fraction n / d in lowest terms, d # 0
Frac[n \in Int, d \in Int] ==
    LET g == GCD[Abs(n), Abs(d)]
    IN  IF d < 0 THEN <<(0 - n) \div g, (0 - d) \div g>> ELSE <<n \div g, d \div g>>

Num(n) == <<n, 1>>
\* sums and comparisons are taken over the least common denominator, and
\* products are cancelled crosswise, which keeps the integers small
Plus[a \in Rational, b \in Rational] ==
    LET g == GCD[a[2], b[2]]
    IN  Frac[a[1] * (b[2] \div g) + b[1] * (a[2] \div g), (a[2] \div g) * b[2]]
Negated[a \in Rational] == <<0 - a[1], a[2]>>
Minus[a \in Rational, b \in Rational] == Plus[a, Negated[b]]
Times[a \in Rational, b \in Rational] ==
    LET g == GCD[Abs(a[1]), b[2]]
        h == GCD[Abs(b[1]), a[2]]
    IN  Frac[(a[1] \div g) * (b[1] \div h), (a[2] \div h) * (b[2] \div g)]
Over[a \in Rational, b \in Rational] ==
    Times[a, IF b[1] < 0 THEN <<0 - b[2], 0 - b[1]>> ELSE <<b[2], b[1]>>]
Less[a \in Rational, b \in Rational] ==
    LET g == GCD[a[2], b[2]]
    IN  a[1] * (b[2] \div g) < b[1] * (a[2] \div g)
LessEq[a \in Rational, b \in Rational] == ~Less[b, a]
Half[a \in Rational] == Over[a, Num(2)]
Magnitude[a \in Rational] == <<Abs(a[1]), a[2]>>

\* Math.min and Math.max
MathMin_First(a, b) == a
MathMin(a, b) == CHOOSE m \in {a, b} : LessEq[m, a] /\ LessEq[m, b]
MathMax(a, b) == CHOOSE m \in {a, b} : LessEq[a, m] /\ LessEq[b, m]

\* const clampNumber = (value, min, max) => Math.min(Math.max(value, min), max)
clampNumber(value, min, max) == MathMin(MathMax(value, min), max)

----------------------------------------------------------------------------
(* The map view and the pan/zoom hook (App.jsx 98-426, 1472-1754, 1968-2007);
   lengths are in units of ten pixels *)

\* BASE_W and BASE_H: the size of the map before any resize
BASE_W == 96
BASE_H == 52
mapW == Num(BASE_W)
mapH == Num(BASE_H)

\* minZoom={1} maxZoom={8}
minZoom == Num(1)
maxZoom == Num(8)
\* zoomSensitivity = 0.025
zoomSensitivity == Frac[1, 40]

\* mapDragBounds: the boundaries fitted into the map fill its width and
\* leave a margin above and below
mapDragBounds ==
    [minX |-> Num(0), minY |-> Num(3), maxX |-> Num(96), maxY |-> Num(49),
     width |-> Num(96), height |-> Num(46)]

\* Math.max(1, Math.min(rawZoom, 8))
SafeZoom(rawZoom) == MathMax(Num(1), MathMin(rawZoom, Num(8)))

\* a translation with its zoom, a point or centre, a view, a position state
XYZ == [x : Rational, y : Rational, zoom : Rational]
Points == Rational \X Rational
Views == [zoom : Rational, center : Points]
Positions ==
    [x : Rational, y : Rational, zoom : Rational, last : Points,
     dragging : BOOLEAN, zooming : BOOLEAN]

XYZOf(pos) == [x |-> pos.x, y |-> pos.y, zoom |-> pos.zoom]

\* mapProjection and mapProjection.invert: the centre [0, 0] is drawn in the
\* middle of the map, one unit of the centre is one unit of length
mapProjection[coordinates \in Points] ==
    <<Plus[Half[mapW], coordinates[1]], Plus[Half[mapH], coordinates[2]]>>
mapProjectionInvert[point \in Points] ==
    <<Minus[point[1], Half[mapW]], Minus[point[2], Half[mapH]]>>

\* the end of clampAxisValue: the range [minTranslate, maxTranslate], both
\* ends at its middle when it is inverted, and the clamp into it
ClampInto[current \in Rational, lowest \in Rational, highest \in Rational] ==
    IF Less[highest, lowest] THEN Half[Plus[lowest, highest]]
    ELSE clampNumber(current, lowest, highest)

\* clampAxisValue of constrainDragPosition, for the zoom safeZoom
clampAxisValue_AsRequested(current, minCoord, maxCoord, viewport, contentSize, safeZoom) ==
    current
clampAxisValue_Unscaled(current, minCoord, maxCoord, viewport, contentSize, safeZoom) ==
    IF LessEq[Times[contentSize, safeZoom], viewport]
    THEN Minus[Half[viewport], Half[Plus[minCoord, maxCoord]]]
    ELSE ClampInto[current,
                   Minus[viewport, Times[safeZoom, maxCoord]],
                   Minus[Num(0), Times[safeZoom, minCoord]]]
clampAxisValue(current, minCoord, maxCoord, viewport, contentSize, safeZoom) ==
    IF LessEq[Times[contentSize, safeZoom], viewport]
    THEN Minus[Half[viewport], Times[safeZoom, Half[Plus[minCoord, maxCoord]]]]
    ELSE ClampInto[current,
                   Minus[viewport, Times[safeZoom, maxCoord]],
                   Minus[Num(0), Times[safeZoom, minCoord]]]

constrainDragPosition[pos \in XYZ] ==
    LET safeZoom == SafeZoom(pos.zoom)
        b == mapDragBounds
    IN  [x |-> clampAxisValue(pos.x, b.minX, b.maxX, mapW, b.width, safeZoom),
         y |-> clampAxisValue(pos.y, b.minY, b.maxY, mapH, b.height, safeZoom),
         zoom |-> safeZoom]

\* clampPosition of the hook, with constrain = constrainDragPosition
clampPosition[pos \in XYZ] ==
    LET base == [pos EXCEPT !.zoom = clampNumber(@, minZoom, maxZoom)]
    IN  [constrainDragPosition[base] EXCEPT !.zoom = clampNumber(@, minZoom, maxZoom)]

\* projectCenter(coordinates, currentZoom)
projectCenter[coordinates \in Points, currentZoom \in Rational] ==
    [x |-> Minus[Half[mapW], Times[mapProjection[coordinates][1], currentZoom]],
     y |-> Minus[Half[mapH], Times[mapProjection[coordinates][2], currentZoom]],
     zoom |-> currentZoom]

\* the centre that a translation shows in the middle of the map:
\* invert([(mapW / 2 - x) / zoom, (mapH / 2 - y) / zoom])
CenterOf[constrained \in XYZ] ==
    mapProjectionInvert[<<Over[Minus[Half[mapW], constrained.x], constrained.zoom],
                          Over[Minus[Half[mapH], constrained.y], constrained.zoom]>>]

\* [clamp(lon, -180, 180), clamp(lat, -90, 90)]
ClampLonLat[adjusted \in Points] ==
    <<MathMax(Num(-180), MathMin(Num(180), adjusted[1])),
      MathMax(Num(-90), MathMin(Num(90), adjusted[2]))>>

\* clampCenter(coordinates, rawZoom)
clampCenter[coordinates \in Points, rawZoom \in Rational] ==
    ClampLonLat[CenterOf[constrainDragPosition[projectCenter[coordinates, SafeZoom(rawZoom)]]]]

\* Math.abs(a - b) < 1e-3
Near[a \in Rational, b \in Rational] ==
    LET d == Magnitude[Minus[a, b]]
    IN  d[1] < (d[2] + 999) \div 1000

\* the updaters of setZoom and setCenter in setView
KeepNear[view \in Views, safeZoom \in Rational, safeCenter \in Points] ==
    [zoom |-> IF Near[view.zoom, safeZoom] THEN view.zoom ELSE safeZoom,
     center |-> IF Near[view.center[1], safeCenter[1]] /\ Near[view.center[2], safeCenter[2]]
                THEN view.center ELSE safeCenter]

\* setView(nextCenter, rawZoom): the zoom and the centre it leaves
setView[view \in Views, nextCenter \in Points, rawZoom \in Rational] ==
    KeepNear[view, SafeZoom(rawZoom), clampCenter[nextCenter, SafeZoom(rawZoom)]]

\* the end of applyPosition: setView(derivedCenter, safeZoom)
ViewOf[view \in Views, constrained \in XYZ] ==
    setView[view, CenterOf[constrained], constrained.zoom]

\* applyPosition(position), called by handleMoveOrZoomEnd
applyPosition[view \in Views, pos \in XYZ] == ViewOf[view, constrainDragPosition[pos]]

\* { ...current, x, y, zoom, last: [x, y] } for a clamped position
Settled[current \in Positions, updated \in XYZ] ==
    [current EXCEPT !.x = updated.x, !.y = updated.y, !.zoom = updated.zoom,
                    !.last = <<updated.x, updated.y>>]

\* the effect on [clampPosition, zoom] (App.jsx 375-387)
ZoomEffect[current \in Positions, z \in Rational] ==
    Settled[current, clampPosition[[x |-> current.x, y |-> current.y, zoom |-> z]]]

\* the effect on [center, clampPosition, projectCenter] (App.jsx 389-401)
CenterEffect[current \in Positions, c \in Points] ==
    Settled[current, clampPosition[projectCenter[c, current.zoom]]]

\* the effect on [clampPosition] (App.jsx 403-413)
ClampEffect[current \in Positions] == Settled[current, clampPosition[XYZOf(current)]]

\* the effects of the hook that run after a render in which its zoom or
\* center prop changed, in their order; clampPosition changes with zoom
HookEffects[current \in Positions, old \in Views, new \in Views] ==
    IF new.zoom # old.zoom
    THEN ClampEffect[CenterEffect[ZoomEffect[current, new.zoom], new.center]]
    ELSE IF new.center # old.center THEN CenterEffect[current, new.center]
    ELSE current

View == [zoom |-> zoom, center |-> center]

\* where the pointer can be, in the coordinates of the svg
PointerPoints == { <<Num(0), Num(0)>>, <<Num(72), Num(39)>> }
\* event.deltaY of a wheel event with the control key down
WheelDeltas == { Num(-300), Num(-5), Num(100) }

\* useState(() => ...) of the hook for center = [0, 0] and zoom = 1
InitialPosition ==
    [Settled[[x |-> Num(0), y |-> Num(0), zoom |-> Num(1), last |-> <<Num(0), Num(0)>>,
              dragging |-> FALSE, zooming |-> FALSE],
             clampPosition[projectCenter[<<Num(0), Num(0)>>, Num(1)]]]
        EXCEPT !.dragging = FALSE]

NoTimer == [pending |-> FALSE, next |-> InitialPosition]

NoClick == [iso |-> NULL, gesture |-> "none", pre |-> InitSel]

ZoomIdle ==
    /\ zoom = Num(1)
    /\ center = <<Num(0), Num(0)>>
    /\ position = InitialPosition
    /\ isPointerDown = FALSE
    /\ pointerOrigin = <<Num(0), Num(0)>>
    /\ wheelTimer = NoTimer
    /\ zEv = [kind |-> "none", asked |-> Num(0)]
    /\ zSteps = 0
    /\ draggingRef = FALSE
    /\ skipClickRef = FALSE
    /\ isDraggingMap = FALSE
    /\ framePending = FALSE
    /\ gesture = "none"
    /\ clickEv = NoClick

\* onMoveStart of the hook: handleMoveStart (App.jsx 1719-1722)
handleMoveStart ==
    /\ draggingRef' = FALSE
    /\ skipClickRef' = FALSE
    /\ UNCHANGED <<isDraggingMap, framePending>>

\* onMove of the hook: handleMove (App.jsx 1724-1731)
handleMove ==
    /\ draggingRef' = TRUE
    /\ isDraggingMap' = (IF ~draggingRef THEN TRUE ELSE isDraggingMap)
    /\ skipClickRef' = TRUE
    /\ UNCHANGED framePending

\* onMoveEnd and onZoomEnd of the hook: handleMoveOrZoomEnd (App.jsx
\* 1733-1751) without its call of applyPosition, which the handlers of the
\* hook make below; the reset of skipClickRef waits for the next frame
handleMoveOrZoomEnd ==
    /\ draggingRef' = FALSE
    /\ isDraggingMap' = FALSE
    /\ framePending' = TRUE
    /\ UNCHANGED skipClickRef

\* a handler that calls none of the three
NoMoveCallback == UNCHANGED <<draggingRef, skipClickRef, isDraggingMap, framePending>>

\* the history of the pointer after a handler
Gesture(g) == gesture' = g /\ UNCHANGED clickEv

\* the render after a handler called setView commits the new props, and the
\* effects of the hook run on the position that the handler left
Committed(pos, view) ==
    /\ zoom' = view.zoom
    /\ center' = view.center
    /\ position' = HookEffects[pos, View, view]

handlePointerDown(p) ==
    /\ zSteps < MaxGestures
    /\ zSteps' = zSteps + 1
    /\ isPointerDown' = TRUE
    /\ pointerOrigin' = p
    /\ position' = [position EXCEPT !.dragging = TRUE]
    /\ zEv' = [kind |-> "pointerdown", asked |-> Num(0)]
    /\ handleMoveStart
    /\ Gesture("down")
    /\ UNCHANGED <<zoom, center, wheelTimer>>
    /\ UNCHANGED <<clock, selVars, refVars, mrgVars, geoVars, colVars>>

handlePointerMove(p) ==
    /\ zSteps < MaxGestures
    /\ isPointerDown
    /\ zSteps' = zSteps + 1
    /\ \E rawX \in {Plus[position.last[1], Minus[p[1], pointerOrigin[1]]]} :
       \E rawY \in {Plus[position.last[2], Minus[p[2], pointerOrigin[2]]]} :
       \E clamped \in {clampPosition[[x |-> rawX, y |-> rawY, zoom |-> position.zoom]]} :
          /\ position' = [position EXCEPT !.x = clamped.x, !.y = clamped.y,
                                          !.zoom = clamped.zoom, !.dragging = TRUE]
          /\ zEv' = [kind |-> "pointermove", asked |-> rawX]
    /\ handleMove
    /\ Gesture("moving")
    /\ UNCHANGED <<zoom, center, isPointerDown, pointerOrigin, wheelTimer>>
    /\ UNCHANGED <<clock, selVars, refVars, mrgVars, geoVars, colVars>>

handlePointerUp ==
    /\ zSteps < MaxGestures
    /\ isPointerDown
    /\ zSteps' = zSteps + 1
    /\ isPointerDown' = FALSE
    /\ \E next \in {[Settled[position, clampPosition[XYZOf(position)]]
                        EXCEPT !.dragging = FALSE]} :
       \E view \in {applyPosition[View, XYZOf(next)]} :
          Committed(next, view)
    /\ zEv' = [kind |-> "pointerup", asked |-> position.last[1]]
    /\ handleMoveOrZoomEnd
    /\ Gesture(IF gesture = "moving" THEN "drag" ELSE "tap")
    /\ UNCHANGED <<pointerOrigin, wheelTimer>>
    /\ UNCHANGED <<clock, selVars, refVars, mrgVars, geoVars, colVars>>

\* the position that the updater of handleWheel returns:
\* next = { ...next, ...clampPosition(next) }; next.last = [next.x, next.y]
WheelNext_KeepAnchor(current, rawX, rawY, newZoom) ==
    LET clamped == clampPosition[[x |-> rawX, y |-> rawY, zoom |-> newZoom]]
    IN  [current EXCEPT !.x = clamped.x, !.y = clamped.y, !.zoom = clamped.zoom,
                        !.zooming = TRUE]
WheelNext(current, rawX, rawY, newZoom) ==
    [Settled[current, clampPosition[[x |-> rawX, y |-> rawY, zoom |-> newZoom]]]
        EXCEPT !.zooming = TRUE]

\* a wheel event with the control key down
handleWheel(deltaY, p) ==
    /\ zSteps < MaxGestures
    /\ zSteps' = zSteps + 1
    /\ \E asked \in {Minus[position.zoom, Times[deltaY, zoomSensitivity]]} :
       \E newZoom \in {clampNumber(asked, minZoom, maxZoom)} :
       \E rawX \in {Plus[Times[Minus[position.x, p[1]], Over[newZoom, position.zoom]], p[1]]} :
       \E rawY \in {Plus[Times[Minus[position.y, p[2]], Over[newZoom, position.zoom]], p[2]]} :
       \E next \in {WheelNext(position, rawX, rawY, newZoom)} :
          /\ position' = next
          /\ wheelTimer' = [pending |-> TRUE, next |-> next]
          /\ zEv' = [kind |-> "wheel", asked |-> asked]
    /\ NoMoveCallback
    /\ Gesture(gesture)
    /\ UNCHANGED <<zoom, center, isPointerDown, pointerOrigin>>
    /\ UNCHANGED <<clock, selVars, refVars, mrgVars, geoVars, colVars>>

\* the timer set by handleWheel ends the zoom 66 ms after the last wheel event
WheelTimeout ==
    /\ wheelTimer.pending
    /\ wheelTimer' = NoTimer
    /\ \E view \in {applyPosition[View, XYZOf(wheelTimer.next)]} :
          Committed([position EXCEPT !.zooming = FALSE], view)
    /\ zEv' = [kind |-> "zoomend", asked |-> Num(0)]
    /\ handleMoveOrZoomEnd
    /\ Gesture(gesture)
    /\ UNCHANGED <<isPointerDown, pointerOrigin, zSteps>>
    /\ UNCHANGED <<clock, selVars, refVars, mrgVars, geoVars, colVars>>

\* adjustZoom(compute) of the + and - buttons
adjustZoom(kind, nextZoom) ==
    /\ zSteps < MaxGestures
    /\ zSteps' = zSteps + 1
    /\ \E asked \in {nextZoom} : \E view \in {setView[View, center, asked]} :
          /\ Committed(position, view)
          /\ zEv' = [kind |-> kind, asked |-> asked]
    /\ NoMoveCallback
    /\ Gesture(gesture)
    /\ UNCHANGED <<isPointerDown, pointerOrigin, wheelTimer>>
    /\ UNCHANGED <<clock, selVars, refVars, mrgVars, geoVars, colVars>>

\* onClick={() => adjustZoom((z) => Math.min(z * 1.5, 8))}
ZoomIn == adjustZoom("zoomin", MathMin(Times[zoom, Frac[3, 2]], Num(8)))
\* onClick={() => adjustZoom((z) => Math.max(z / 1.5, 1))}
ZoomOut == adjustZoom("zoomout", MathMax(Over[zoom, Frac[3, 2]], Num(1)))

\* onClick={() => { setView([0, 0], 1); }}
Reset ==
    /\ zSteps < MaxGestures
    /\ zSteps' = zSteps + 1
    /\ \E view \in {setView[View, <<Num(0), Num(0)>>, Num(1)]} :
          Committed(position, view)
    /\ zEv' = [kind |-> "reset", asked |-> Num(1)]
    /\ NoMoveCallback
    /\ Gesture(gesture)
    /\ UNCHANGED <<isPointerDown, pointerOrigin, wheelTimer>>
    /\ UNCHANGED <<clock, selVars, refVars, mrgVars, geoVars, colVars>>

ZoomNext ==
    \/ \E p \in PointerPoints : handlePointerDown(p)
    \/ \E p \in PointerPoints : handlePointerMove(p)
    \/ handlePointerUp
    \/ \E deltaY \in WheelDeltas : \E p \in PointerPoints : handleWheel(deltaY, p)
    \/ WheelTimeout
    \/ ZoomIn
    \/ ZoomOut
    \/ Reset

\* the callbacks handed to requestAnimationFrame run at the next frame
\* (App.jsx 1738-1745): skipClickRef.current = false
AnimationFrame ==
    /\ framePending
    /\ framePending' = FALSE
    /\ skipClickRef' = FALSE
    /\ gesture' = (IF gesture = "drag" THEN "settled" ELSE gesture)
    /\ zEv' = [kind |-> "frame", asked |-> Num(0)]
    /\ UNCHANGED <<draggingRef, isDraggingMap, clickEv>>
    /\ UNCHANGED <<zoom, center, position, isPointerDown, pointerOrigin,
                   wheelTimer, zSteps>>
    /\ UNCHANGED <<clock, selVars, refVars, mrgVars, geoVars, colVars>>

\* the shapes that can be clicked: one without a code, one with
ClickTargets == { NULL, USA }

\* onClick of a shape (App.jsx 2055-2058); disabled = !iso3 (App.jsx 2014)
ClickGuard(iso3) ==
    ~Truthy(iso3) \/ draggingRef \/ isDraggingMap \/ skipClickRef

MapClick(iso3) ==
    /\ clickEv' = [iso |-> iso3, gesture |-> gesture, pre |-> CurSel]
    /\ zEv' = [kind |-> "click", asked |-> Num(0)]
    /\ IF ClickGuard(iso3)
       THEN UNCHANGED selVars
       ELSE \E t \in {SetSelection(CurSel, iso3, clock)} :
               /\ codeA' = t.codeA
               /\ codeB' = t.codeB
               /\ lastA' = t.lastA
               /\ lastB' = t.lastB
               /\ order' = NextOrder(order, CurSel, t)
               /\ selEv' = [op |-> "select", iso |-> iso3, pre |-> CurSel,
                            preOrder |-> order, now |-> clock]
               /\ fresh' = SetSelection(fresh, iso3, clock)
    /\ UNCHANGED <<draggingRef, skipClickRef, isDraggingMap, framePending, gesture>>
    /\ UNCHANGED <<zoom, center, position, isPointerDown, pointerOrigin,
                   wheelTimer, zSteps>>
    /\ UNCHANGED <<clock, refVars, mrgVars, geoVars, colVars>>

\* the map with its clicks and its animation frames
ClickNext ==
    \/ ZoomNext
    \/ AnimationFrame
    \/ \E iso3 \in ClickTargets : MapClick(iso3)

UnitsIdle == GeoIdle /\ ColorIdle /\ ZoomIdle

----------------------------------------------------------------------------
(* Specifications *)

\* the page: refresh policy and fetchLive
Init ==
    /\ clock = StartClock
    /\ SelInit
    /\ RefInit
    /\ MrgIdle
    /\ UnitsIdle

Next == RefNext

Spec == Init /\ [][Next]_vars

\* the selection handlers
InitSelection ==
    /\ clock = StartClock
    /\ SelInit
    /\ storage = NULL
    /\ RefIdle
    /\ MrgIdle
    /\ UnitsIdle

SpecSel == InitSelection /\ [][SelNext]_vars

\* the merge
InitMerge ==
    /\ clock = StartClock
    /\ SelInit
    /\ storage = NULL
    /\ RefIdle
    /\ MrgInit
    /\ UnitsIdle

SpecMerge == InitMerge /\ [][MrgNext]_vars

\* the merge over the observation sequences of one indicator
InitObservations ==
    /\ clock = StartClock
    /\ SelInit
    /\ storage = NULL
    /\ RefIdle
    /\ ObsInit
    /\ UnitsIdle

SpecObs == InitObservations /\ [][MrgNext]_vars

\* the merge over metadata and boundary files with malformed codes
InitCodes ==
    /\ clock = StartClock
    /\ SelInit
    /\ storage = NULL
    /\ RefIdle
    /\ CodesInit
    /\ UnitsIdle

SpecCodes == InitCodes /\ [][MrgNext]_vars

\* the merge over metadata and boundary files with shared codes and
\* missing names
InitNames ==
    /\ clock = StartClock
    /\ SelInit
    /\ storage = NULL
    /\ RefIdle
    /\ NamesInit
    /\ UnitsIdle

SpecNames == InitNames /\ [][MrgNext]_vars

\* the ISO-3 extractor
InitGeo ==
    /\ clock = StartClock
    /\ SelInit
    /\ storage = NULL
    /\ RefIdle
    /\ MrgIdle
    /\ GeoInit
    /\ ColorIdle
    /\ ZoomIdle

SpecGeo == InitGeo /\ [][GeoNext]_vars

\* the colour scale
InitColor ==
    /\ clock = StartClock
    /\ SelInit
    /\ storage = NULL
    /\ RefIdle
    /\ MrgIdle
    /\ GeoIdle
    /\ ColorInit
    /\ ZoomIdle

SpecColor == InitColor /\ [][ColorNext]_vars

\* the map view and the pan/zoom hook
InitZoom ==
    /\ clock = StartClock
    /\ SelInit
    /\ storage = NULL
    /\ RefIdle
    /\ MrgIdle
    /\ GeoIdle
    /\ ColorIdle
    /\ ZoomIdle

SpecZoom == InitZoom /\ [][ZoomNext]_vars

\* the map view, the clicks on its shapes and the animation frames
SpecClick == InitZoom /\ [][ClickNext]_vars

----------------------------------------------------------------------------
(* Claims about the selection state machine *)

\* the last handler was a setSelection of a code that was in neither slot
SelectedNew ==
    /\ selEv.op = "select"
    /\ Truthy(selEv.iso)
    /\ ToUpperCase(selEv.iso) \notin Occupants(selEv.pre)

BothFull(s) == Truthy(s.codeA) /\ Truthy(s.codeB)
BothEmpty(s) == ~Truthy(s.codeA) /\ ~Truthy(s.codeB)

\* C1: when both slots are full and a country that is in neither slot is
\* selected, the occupant that was assigned earlier is the one evicted and
\* the new country takes its slot, whatever select, swap and clear
\* actions came before.
C1_StalestEvicted ==
    (SelectedNew /\ BothFull(selEv.pre)) =>
        LET stalest == Head(selEv.preOrder)
            iso == ToUpperCase(selEv.iso)
        IN  IF selEv.pre.codeA = stalest
            THEN codeA = iso /\ codeB = selEv.pre.codeB
            ELSE codeB = iso /\ codeA = selEv.pre.codeA

\* C2: selecting a country that is in neither slot fills slot A when both
\* slots are empty and fills the one empty slot when exactly one is empty;
\* the other slot's occupant stays.
C2_FillEmptySlot ==
    (SelectedNew /\ ~BothFull(selEv.pre)) =>
        LET iso == ToUpperCase(selEv.iso) IN
        IF BothEmpty(selEv.pre) THEN codeA = iso /\ codeB = selEv.pre.codeB
        ELSE IF ~Truthy(selEv.pre.codeA)
             THEN codeA = iso /\ codeB = selEv.pre.codeB
             ELSE codeB = iso /\ codeA = selEv.pre.codeA

\* select X then select Y from the empty state has given {A: X, B: Y}
C2_Witness ==
    /\ SelectedNew
    /\ selEv.pre = Sel(USA, NULL, StartClock, 0)
    /\ codeA = USA /\ codeB = FRA

\* C3: selecting a code, in any letter case, that already occupies slot A
\* or slot B changes neither slot content nor slot timestamp.
C3_ReselectNoOp ==
    (/\ selEv.op = "select"
     /\ Truthy(selEv.iso)
     /\ ToUpperCase(selEv.iso) \in Occupants(selEv.pre)) => CurSel = selEv.pre

\* a lower-case code of the occupant of slot B was selected at a later time
C3_Witness ==
    /\ selEv.op = "select"
    /\ selEv.iso = <<"f","r","a">>
    /\ selEv.pre.codeB = FRA
    /\ selEv.now > selEv.pre.lastB
    /\ BothFull(selEv.pre)

\* C4: clear empties both slots, and every later sequence of select and
\* swap actions gives the slot contents that the same sequence gives on a
\* newly created selection state.
C4_ClearResets ==
    /\ selEv.op = "clear" => codeA = NULL /\ codeB = NULL
    /\ codeA = fresh.codeA
    /\ codeB = fresh.codeB

\* C5: swap exchanges the occupants of A and B, empty ones included, and
\* leaves both slot timestamps as they were; a second swap gives back the
\* state before the first.
C5_SwapOccupants ==
    selEv.op = "swap" =>
        /\ codeA = selEv.pre.codeB
        /\ codeB = selEv.pre.codeA
        /\ lastA = selEv.pre.lastA
        /\ lastB = selEv.pre.lastB
        /\ swap(CurSel) = selEv.pre

\* a swap has moved the only occupant from A to B, the stamps differing
C5_Witness ==
    /\ selEv.op = "swap"
    /\ selEv.pre.codeA = USA
    /\ selEv.pre.codeB = NULL
    /\ codeA = NULL /\ codeB = USA
    /\ lastA # lastB

----------------------------------------------------------------------------
(* Claims about the refresh *)

\* C6: when a fetch of a refresh fails, the refresh has committed nothing:
\* rows, boundary feature collection, last-refreshed timestamp and
\* persisted timestamp are what they were when the refresh started.
C6_FailedRefreshCommitsNothing ==
    (refEv.kind = "fail" /\ refEv.clean) => Displayed = refEv.snap

\* C7: after a refresh has failed, a new refresh is started only by a
\* reload of the page.
C7_OnlyReloadAfterFailure ==
    (refEv.afterFailure /\ refEv.starts) => refEv.kind = "load"

\* C7 (amended): the step in which a refresh fails starts no refresh; a
\* refresh is started only by a page load, by the interval timer, or by
\* the effect that runs again after a commit changed the number of rows.
C7_NoRetryOnFailure ==
    /\ refEv.kind = "fail" => ~refEv.starts
    /\ refEv.starts => refEv.kind \in {"load", "timer", "commit"}

\* after a failure the interval timer has started the next refresh
C7_Witness ==
    /\ refEv.afterFailure
    /\ refEv.kind = "timer"
    /\ refEv.starts
    /\ error = ""

\* the persisted timestamp read at a page load
Persisted == ReadLast(TRUE, storage)
ValidStamp == Persisted # NoTime /\ Persisted # NaN /\ Persisted > 0

\* C8: at page load no refresh is issued when the persisted timestamp is
\* less than 24 hours old; one is issued when the timestamp is missing,
\* invalid or older than 24 hours.
C8_FreshCacheSkipsRefresh ==
    (refEv.kind = "load" /\ refEv.readOK) =>
        /\ (ValidStamp /\ refEv.now - Persisted < DAY_MS) => ~refEv.starts
        /\ (~ValidStamp \/ refEv.now - Persisted > DAY_MS) => refEv.starts

\* C9: a failure to read or write the persisted timestamp never sets the
\* banner; a failed read starts a refresh, as a missing timestamp does; a
\* failed write after a successful refresh leaves the merged rows and the
\* in-memory last-refreshed timestamp of that refresh in place.
C9_StorageFailureIgnored ==
    /\ (refEv.kind \in {"load", "commit"} /\ (~refEv.readOK \/ ~refEv.writeOK)) =>
            error \in {"", refEv.preError}
    /\ (refEv.kind \in {"load", "commit"} /\ ~refEv.readOK) => refEv.starts
    /\ (refEv.kind = "commit" /\ ~refEv.writeOK) =>
            /\ liveRows = refEv.rows
            /\ lastRefreshed = refEv.now

----------------------------------------------------------------------------
(* Claims about the merge *)

Xkx == <<"X","K","X">>

\* the ISO-3 keys of the two name sources, read off the responses
MetaKeys ==
    {ToUpperCase(mIn.countries[i].iso3Code) :
        i \in {j \in 1..Len(mIn.countries) :
                  /\ mIn.countries[j].regionId # "NA"
                  /\ Truthy(mIn.countries[j].iso3Code)}}
BoundaryKeys ==
    {getIso3(mIn.features[i].properties) : i \in 1..Len(mIn.features)} \ {NULL}
IndicatorKeys ==
    UNION {{ToUpperCase(mIn.recordLists[m][i].countryiso3code) :
               i \in 1..Len(mIn.recordLists[m])} : m \in 1..NumMetrics}

\* C10: the merged records have exactly the ISO-3 keys of the metadata
\* source and of the boundary source, one record per key; a code that is
\* only in indicator data has no record.
C10_KeysAreUnionOfNameSources ==
    mOut.done =>
        /\ {mOut.rows[i].iso3 : i \in 1..Len(mOut.rows)} = MetaKeys \cup BoundaryKeys
        /\ \A i, j \in 1..Len(mOut.rows) :
              mOut.rows[i].iso3 = mOut.rows[j].iso3 => i = j

\* a merge of a key of the metadata only, a key of the boundary file only
\* and a key of an indicator only
C10_Witness ==
    /\ mOut.done
    /\ MetaKeys = {USA}
    /\ BoundaryKeys = {FRA}
    /\ Xkx \in IndicatorKeys
    /\ Len(mOut.rows) = 2

----------------------------------------------------------------------------
(* Claims about the merged rows, continued (specification SpecMerge) *)

\* the rows of a merge as a set of records
RecordSet(rows) == {rows[i] : i \in 1..Len(rows)}

\* C11: the merge does not depend on the order of the metric bundles: with
\* the bundles, each with its metric, in any other order the merged record
\* set is the same (same ISO-3 keys, each with the same name, iso2 and
\* per-metric latest value, latest year and series)
C11_MergeOrderIndependent ==
    mOut.done => RecordSet(mOut.permRows) = RecordSet(mOut.rows)

\* two different bundles merged in the other order, with rows that carry data
C11_Witness ==
    /\ mOut.done
    /\ mOut.perm = <<2, 1>>
    /\ mIn.recordLists[1] # mIn.recordLists[2]
    /\ \E i \in 1..Len(mOut.rows) : DOMAIN mOut.rows[i].value = {1, 2}
    /\ \E i \in 1..Len(mOut.rows) : DOMAIN mOut.rows[i].value = {2}

----------------------------------------------------------------------------
(* Claims about the observations of an indicator (specification SpecObs) *)

\* C12: in every merged record, for every metric that has both a latest
\* value and a series, the latest value is the series entry at the recorded
\* latest year, whatever the sequence of observations (years repeated or out
\* of order included)
C12_LatestIsSeriesAtLatestYear ==
    mOut.done =>
        \A i \in 1..Len(mOut.rows) :
            LET row == mOut.rows[i]
            IN  \A f \in DOMAIN row.value \cap DOMAIN row.series :
                    /\ row.years[f] \in DOMAIN row.series[f]
                    /\ row.series[f][row.years[f]] = row.value[f]

\* the latest year comes first, then an older year, then the latest year
\* again with another value
C12_Witness ==
    /\ mOut.done
    /\ mIn.recordLists[1] = <<oUSA20, oUSA19, oUSA20b>>
    /\ \E i \in 1..Len(mOut.rows) :
          /\ mOut.rows[i].iso3 = USA
          /\ mOut.rows[i].value[1] = 5
          /\ mOut.rows[i].years[1] = 2020

----------------------------------------------------------------------------
(* Claims about the ISO-3 keys of the merged rows (specification SpecCodes) *)

\* C13: every merged record has an iso3 that is uppercase and exactly three
\* characters long, whatever the metadata and boundary input
C13_Iso3UpperThree ==
    mOut.done =>
        \A i \in 1..Len(mOut.rows) :
            /\ Len(mOut.rows[i].iso3) = 3
            /\ ToUpperCase(mOut.rows[i].iso3) = mOut.rows[i].iso3

----------------------------------------------------------------------------
(* Claims about the ISO-3 extractor (specification SpecGeo) *)

\* a three-letter code in any letter case
ValidIso3(v) ==
    /\ v # NULL
    /\ Len(v) = 3
    /\ \A i \in 1..3 : \E j \in 1..26 : v[i] \in {LowerAlphabet[j], UpperAlphabet[j]}

SentinelAppears == \E k \in DOMAIN gProps : gProps[k] = Sentinel

\* C14: the extractor returns the uppercased code of a valid ISO-3 value
\* given in any letter case under any recognised key, returns null whenever
\* the placeholder "-99" is the value of any recognised key, and never
\* returns the placeholder
C14_ExtractorContract ==
    gOut.done =>
        /\ gOut.iso3 # Sentinel
        /\ SentinelAppears => gOut.iso3 = NULL
        /\ (~SentinelAppears /\ \E k \in DOMAIN gProps : ValidIso3(gProps[k])) =>
               \E k \in DOMAIN gProps :
                   ValidIso3(gProps[k]) /\ gOut.iso3 = ToUpperCase(gProps[k])

----------------------------------------------------------------------------
(* Claims about the colour scale (specification SpecColor) *)

\* the distinct numeric values of the active metric
DistinctValues == {activeValues[i].n : i \in {j \in 1..Len(activeValues) : IsNumber(activeValues[j])}}

\* C15: in quantile mode the colour of the smallest value differs from the
\* colour of the largest value whenever the metric has at least two distinct
\* numeric values
C15_QuantileMinMaxDiffer ==
    (cOut.done /\ colorScaleMode = "quantile" /\ Cardinality(DistinctValues) >= 2)
        => cOut.cMin # cOut.cMax

\* C16: whenever the metric has at least one numeric value, the colour of the
\* smallest value differs from the colour of the largest value, in quantile
\* mode and in linear mode
C16_MinMaxDifferInBothModes ==
    (cOut.done /\ DistinctValues # {}) => cOut.cMin # cOut.cMax

\* C17: a row without a numeric value is painted in a colour that no row with
\* a numeric value is painted in, in both modes
C17_NoDataColourIsDistinct ==
    cOut.done =>
        \A i, j \in 1..Len(activeValues) :
            (~IsNumber(activeValues[i]) /\ IsNumber(activeValues[j]))
                => cOut.fill[i] # cOut.fill[j]

\* C18: in quantile mode, with fewer than two distinct numeric values, the
\* legend reports that the data are insufficient and draws no five buckets
C18_DegenerateQuantileLegend ==
    (cOut.done /\ colorScaleMode = "quantile" /\ Cardinality(DistinctValues) < 2)
        => cOut.legend = "Not enough data to compute quantile legend."

----------------------------------------------------------------------------
(* Claims about the map view and the pan/zoom hook (specification SpecZoom) *)

InZoomRange(z) == LessEq[Num(1), z] /\ LessEq[z, Num(8)]

\* C19: after any wheel, drag, button and prop-change events, the zoom of the
\* map view and the zoom of the hook's position are both within [1, 8]
C19_ZoomWithinRange == InZoomRange(zoom) /\ InZoomRange(position.zoom)

\* a wheel event asked for a zoom above 8, and the view has taken over the
\* zoom that the hook settled on
C19_Witness ==
    /\ zEv.kind = "zoomend"
    /\ zoom = Num(8)
    /\ position.zoom = Num(8)

\* the translation t keeps the zoomed content over the viewport on an axis
\* with the coordinates minCoord..maxCoord
Covers(t, z, minCoord, maxCoord, viewport) ==
    /\ LessEq[Minus[viewport, Times[z, maxCoord]], t]
    /\ LessEq[t, Minus[Num(0), Times[z, minCoord]]]

Exceeds(z, contentSize, viewport) == Less[viewport, Times[contentSize, z]]

\* C20: after any pointer and wheel events, on every axis on which the zoomed
\* content is larger than the viewport the translation t that is applied
\* satisfies viewport - zoom * maxCoord <= t <= -zoom * minCoord
C20_ContentCoversViewport ==
    LET b == mapDragBounds
        z == position.zoom
    IN  /\ Exceeds(z, b.width, mapW) => Covers(position.x, z, b.minX, b.maxX, mapW)
        /\ Exceeds(z, b.height, mapH) => Covers(position.y, z, b.minY, b.maxY, mapH)

\* a drag asked for a translation beyond the range and was held at its edge
C20_Witness ==
    /\ zEv.kind = "pointermove"
    /\ Exceeds(position.zoom, mapDragBounds.width, mapW)
    /\ Exceeds(position.zoom, mapDragBounds.height, mapH)
    /\ Less[Num(0), zEv.asked]
    /\ position.x = Num(0)

\* the zoomed content is no larger than the viewport
Fits(z, contentSize, viewport) == LessEq[Times[contentSize, z], viewport]

\* viewport / 2 - zoom * (minCoord + maxCoord) / 2
Centred(z, minCoord, maxCoord, viewport) ==
    Minus[Half[viewport], Times[z, Half[Plus[minCoord, maxCoord]]]]

\* C21: on an axis on which the zoomed content is no larger than the
\* viewport the translation is viewport / 2 - zoom * (minCoord + maxCoord) / 2
\* after every event, whatever offset a drag or a wheel event asked for
C21_SmallContentStaysCentred ==
    LET b == mapDragBounds
        z == position.zoom
    IN  /\ Fits(z, b.width, mapW) => position.x = Centred(z, b.minX, b.maxX, mapW)
        /\ Fits(z, b.height, mapH) => position.y = Centred(z, b.minY, b.maxY, mapH)

\* at a zoom above 1 the content fits the height but not the width: a drag
\* along the diagonal has moved the content sideways and not up or down
C21_Witness ==
    /\ zEv.kind = "pointermove"
    /\ Less[Num(1), position.zoom]
    /\ Fits(position.zoom, mapDragBounds.height, mapH)
    /\ position.x # position.last[1]
    /\ position.y = Centred(position.zoom, mapDragBounds.minY, mapDragBounds.maxY, mapH)

----------------------------------------------------------------------------
(* The observations of one country read from the response itself *)

\* the observations of the response that carry a value for the country iso,
\* as pairs of year and number in their order of arrival
ObservedFor(recordList, iso) ==
    LET valid == SelectSeq(recordList,
                     LAMBDA o : /\ Truthy(o.countryiso3code)
                                /\ ToUpperCase(o.countryiso3code) = iso
                                /\ o.value.t # "null"
                                /\ ToNumber(o.value) # NaN)
    IN  [k \in 1..Len(valid) |->
            [year |-> ParseInt(valid[k].date), value |-> ToNumber(valid[k].value)]]

\* the first observation of the year y
FirstOf(os, y) == os[CHOOSE k \in 1..Len(os) :
                        os[k].year = y /\ \A h \in 1..(k - 1) : os[h].year # y]

\* the greatest year among the observations; NaN when no date could be read
GreatestYear(os) ==
    LET years == {os[k].year : k \in 1..Len(os)} \ {NaN}
    IN  IF years = {} THEN NaN ELSE CHOOSE y \in years : \A z \in years : z <= y

\* C22: for every country of the first indicator's response the series holds
\* for each year the first value that arrived for it, and the latest entry is
\* the first observation of the greatest year that arrived
C22_FirstSeenWins ==
    mOut.done =>
        \A i \in 1..Len(mOut.rows) :
            LET row == mOut.rows[i]
                os == ObservedFor(mIn.recordLists[1], row.iso3)
            IN  os # << >> =>
                    /\ 1 \in DOMAIN row.series /\ 1 \in DOMAIN row.value
                    /\ DOMAIN row.series[1] = {os[k].year : k \in 1..Len(os)}
                    /\ \A y \in DOMAIN row.series[1] :
                           row.series[1][y] = FirstOf(os, y).value
                    /\ row.years[1] = GreatestYear(os)
                    /\ row.value[1] = FirstOf(os, GreatestYear(os)).value

----------------------------------------------------------------------------
(* Claims about the display names of the merged rows (specification SpecNames) *)

\* the name that a source gives for a code: that of its last entry with the
\* code; NULL when the source has no entry with the code
LastNameOf(entries, iso) ==
    LET at == {i \in 1..Len(entries) : entries[i].iso3 = iso}
    IN  IF at = {} THEN NULL
        ELSE entries[CHOOSE i \in at : \A j \in at : j <= i].country

MetaName(iso) == LastNameOf(wbCountries(mIn.countries), iso)
BoundaryName(iso) == LastNameOf(geoCountries(mIn.features), iso)

\* the name of the metadata source when it has the code, else the name of
\* the boundary source
PreferredName(iso) == IF iso \in MetaKeys THEN MetaName(iso) ELSE BoundaryName(iso)

\* C23 as claimed: the display name of every merged record is the name of the
\* metadata source whenever its code is in the metadata source, and the name
\* of the boundary source only otherwise
C23_NameFromMetadataFirst ==
    mOut.done =>
        \A i \in 1..Len(mOut.rows) :
            mOut.rows[i].country = PreferredName(mOut.rows[i].iso3)

\* C23 amended: the display name is that preferred name when it is not
\* empty, and the ISO-3 code of the record when it is empty, also when the
\* other source has a name for the code
C23_NameOrCode ==
    mOut.done =>
        \A i \in 1..Len(mOut.rows) :
            LET iso == mOut.rows[i].iso3
            IN  mOut.rows[i].country =
                    IF PreferredName(iso) \in {NULL, << >>} THEN iso
                    ELSE PreferredName(iso)

\* the metadata names USA, the boundary file names USA otherwise and France
C23_Witness ==
    /\ mOut.done
    /\ mIn.countries = <<wbUSA>>
    /\ mIn.features = <<fUSA, fFRA>>
    /\ \E i \in 1..Len(mOut.rows) :
          mOut.rows[i].iso3 = USA /\ mOut.rows[i].country = <<"United States">>
    /\ \E i \in 1..Len(mOut.rows) :
          mOut.rows[i].iso3 = FRA /\ mOut.rows[i].country = <<"France">>

----------------------------------------------------------------------------
(* Claims about the colour scale, continued (specification SpecColor) *)

\* C24: whenever the active metric has at least one numeric value, each of
\* the four quantile thresholds is at least the threshold before it
C24_ThresholdsNonDecreasing ==
    (cOut.done /\ cOut.thresholds # << >>) =>
        \A k \in 1..3 : ~DoubleLess(cOut.thresholds[k + 1], cOut.thresholds[k])

----------------------------------------------------------------------------
(* Claims about the selection state machine, continued (specification SpecSel) *)

\* C25: after any select, swap and clear actions the slots A and B hold the
\* same value only when both are empty
C25_SlotsNeverShareACode == codeA = codeB => BothEmpty(CurSel)

\* slot A was empty and slot B full, as a swap leaves them, and the occupant
\* of B was selected again in lower case
C25_Witness ==
    /\ selEv.op = "select"
    /\ selEv.iso = <<"u","s","a">>
    /\ ~Truthy(selEv.pre.codeA)
    /\ selEv.pre.codeB = USA
    /\ codeB = USA

----------------------------------------------------------------------------
(* Claims about the refresh policy, continued (specification Spec) *)

\* C26: the commit of a successful refresh starts no further refresh, also
\* when the timestamp cannot be stored or read back and when the number of
\* merged rows changes
C26_CommitStartsNoRefresh == refEv.kind = "commit" => ~refEv.starts

\* C27: a refresh that commits never replaces the rows and the timestamp
\* committed by a refresh that was started after it, so that with every
\* refresh settled the page shows the result of the one started last
C27_LaterStartedRefreshWins == refEv.kind = "commit" => refEv.over < refEv.id

----------------------------------------------------------------------------
(* Claims about the pan/zoom hook, continued (specification SpecZoom) *)

\* C28: after any pointer, wheel and button events, whenever the position is
\* not dragging its anchor position.last is its translation
\* [position.x, position.y]
C28_AnchorIsTranslationAtRest ==
    ~position.dragging => position.last = <<position.x, position.y>>

\* a drag has ended away from the anchor it started from, and the anchor
\* has followed the translation
C28_Witness ==
    /\ zEv.kind = "pointerup"
    /\ ~position.dragging
    /\ zEv.asked # position.last[1]
    /\ position.last[1] = position.x

----------------------------------------------------------------------------
(* Claims about the clicks on the map *)

\* the last event was a click on a shape that has a code
Clicked == zEv.kind = "click" /\ Truthy(clickEv.iso)

\* C29: a click that arrives after a drag with at least one pointer move,
\* before the first animation frame after the end of that drag, leaves the
\* selection as it was; a click after a press and release with no move in
\* between puts the clicked country into a slot
C29_ClickAfterDragIgnored ==
    /\ (Clicked /\ clickEv.gesture = "drag") =>
          (codeA = clickEv.pre.codeA /\ codeB = clickEv.pre.codeB)
    /\ (Clicked /\ clickEv.gesture = "tap") =>
          ToUpperCase(clickEv.iso) \in Occupants(CurSel)

----------------------------------------------------------------------------
(* Claims about the order of the colours *)

\* the lightness of a colour: the smaller, the darker
Lightness(colour) == colour[4]

\* the rows that have a number under the active metric
NumberRows == {i \in 1..Len(activeValues) : IsNumber(activeValues[i])}

\* C30: for one data set and one scale mode the colour grows darker with the
\* value: of two rows with numbers, the one with the greater or equal value
\* is never painted lighter than the other
C30_ColourIsMonotone ==
    cOut.done =>
        \A i \in NumberRows : \A j \in NumberRows :
            activeValues[i].n <= activeValues[j].n =>
                Lightness(cOut.fill[j]) <= Lightness(cOut.fill[i])

\* three rows with different numbers, each painted darker than the one before
C30_Witness ==
    /\ cOut.done
    /\ colorScaleMode = "quantile"
    /\ \E i \in NumberRows : \E j \in NumberRows : \E k \in NumberRows :
          /\ activeValues[i].n < activeValues[j].n
          /\ activeValues[j].n < activeValues[k].n
          /\ Lightness(cOut.fill[j]) < Lightness(cOut.fill[i])
          /\ Lightness(cOut.fill[k]) < Lightness(cOut.fill[j])

====
